---- MODULE Spec2Model ----
(***************************************************************************)
(* Document ingestion (FileUpload.handleFileChange, fileService), the      *)
(* screens of App (analysis, tabs, configuration) and the streaming search *)
(* aggregator with its cache (CognitiveSearch.handleSearch) of the sales   *)
(* intelligence assistant, as state machines.                              *)
(*                                                                         *)
(* Text is a sequence of one-character strings, so that length, trimming,  *)
(* prefix/suffix tests and scanning are computed as the code computes them.*)
(***************************************************************************)
EXTENDS Integers, Sequences, FiniteSets, TLC

VARIABLES
    files,          \* App state `files`: UploadedFile[] (name, content, type, status)
    tasks,          \* running/finished handleFileChange invocations, in call order
    isCognitiveOcr, \* FileUpload state: recognition-active flag
    ocrProgress,    \* FileUpload state: reported progress
    sent,           \* the context the step just taken handed to the generation service
    analysis,       \* App state: an analysis result is held
    activeTab,      \* App state `activeTab`
    context,        \* App state `meetingContext`
    query,          \* CognitiveSearch state
    isSearching,    \* CognitiveSearch state
    result,         \* CognitiveSearch state: null, a streaming snapshot or a parsed reply
    streamingText,  \* CognitiveSearch state
    error,          \* CognitiveSearch state
    isFromCache,    \* CognitiveSearch state
    searchCache,    \* CognitiveSearch ref: the entries of the Map
    req,            \* the handleSearch call in flight and how the last one ended
    call,           \* a function of the services applied on its own: arguments and outcome
    status,         \* PracticeSession state
    isActive,       \* PracticeSession state
    transcription,  \* PracticeSession state: the conversation history
    currentTranscription, \* PracticeSession state: the turn being transcribed
    live,           \* the live session: its callbacks' closure, its messages
    lastAnalyzedHash, \* App ref: the state hash of the analysis held
    analyzed        \* what analyzeSalesContext was given by each analysis that succeeded

appVars == <<analysis, activeTab, context>>

searchVars ==
    <<query, isSearching, result, streamingText, error, isFromCache, searchCache, req>>

practiceVars == <<status, isActive, transcription, currentTranscription, live>>

retainVars == <<lastAnalyzedHash, analyzed>>

vars ==
    <<files, tasks, isCognitiveOcr, ocrProgress, sent, appVars, searchVars, call, practiceVars,
      retainVars>>

----------------------------------------------------------------------------
(* Bounds *)

\* number of handleFileChange invocations (file selections) in one run
MaxSelections == 2

\* number of handleSearch calls accepted in one run
MaxSearches == 2

\* length of the text that follows a field marker in a buffer handed to the
\* field extractor on its own
MaxTail == 4

\* width of the images handed to the convolution
MaxWidth == 3

\* number of messages the live sessions of one run deliver
MaxMessages == 3

\* number of analyses that succeed in one run
MaxAnalyses == 2

----------------------------------------------------------------------------
(* Text helpers *)

NL == "\n"
SP == " "

IsWhite(c) == c = SP \/ c = NL

RECURSIVE TrimStart(_)
TrimStart(s) ==
    IF s # <<>> /\ IsWhite(Head(s)) THEN TrimStart(Tail(s)) ELSE s

RECURSIVE TrimEnd(_)
TrimEnd(s) ==
    IF s # <<>> /\ IsWhite(s[Len(s)]) THEN TrimEnd(SubSeq(s, 1, Len(s) - 1)) ELSE s

\* String.prototype.trim
Trim(s) == TrimEnd(TrimStart(s))

\* String.prototype.endsWith / startsWith (case-sensitive, as in JavaScript)
EndsWith(s, suf) ==
    Len(s) >= Len(suf) /\ SubSeq(s, Len(s) - Len(suf) + 1, Len(s)) = suf

StartsWith(s, pre) ==
    Len(s) >= Len(pre) /\ SubSeq(s, 1, Len(pre)) = pre

\* Array.prototype.join
RECURSIVE Join(_, _)
Join(parts, sep) ==
    IF parts = <<>> THEN <<>>
    ELSE IF Len(parts) = 1 THEN parts[1]
    ELSE parts[1] \o sep \o Join(Tail(parts), sep)

\* n copies of the character c
Rep(c, n) == [k \in 1..n |-> c]

\* decimal rendering of a small page number (template literal ${i})
Digits == <<"0", "1", "2", "3", "4", "5", "6", "7", "8", "9">>

RECURSIVE NumStr(_)
NumStr(n) == IF n < 10 THEN <<Digits[n + 1]>> ELSE NumStr(n \div 10) \o <<Digits[(n % 10) + 1]>>

----------------------------------------------------------------------------
(* Input files *)

DotPdf  == <<".", "p", "d", "f">>
DotDocx == <<".", "d", "o", "c", "x">>
MimePdf == <<"a","p","p","l","i","c","a","t","i","o","n","/","p","d","f">>
MimePng == <<"i","m","a","g","e","/","p","n","g">>
MimeTxt == <<"t","e","x","t","/","p","l","a","i","n">>
ImagePrefix == <<"i","m","a","g","e","/">>

FilePdf   == [name |-> <<"a">> \o DotPdf, type |-> MimePdf]
FilePng   == [name |-> <<"b", ".", "p", "n", "g">>, type |-> MimePng]
FileTxt   == [name |-> <<"c", ".", "t", "x", "t">>, type |-> MimeTxt]
FileDocx  == [name |-> <<"d">> \o DotDocx, type |-> <<>>]

\* The file lists a user may pick in one selection (names distinct within one
\* selection: a file input lists each chosen file once).
Selections ==
    { <<FilePng, FileTxt>>, <<FileTxt, FileDocx>>, <<FilePdf>> }

\* What a decoded / recognised text may be.
Texts == { <<"x">>, <<"y">> }

\* PDF structures pdf.js may report: numPages and, per page, the str of each
\* text item of the embedded layer.
PdfDocs ==
    { [numPages |-> 0, pages |-> <<>>],
      [numPages |-> 2, pages |-> << <<>>, << <<"x">> >> >>],
      [numPages |-> 1, pages |-> << << Rep("x", 24), Rep("y", 25) >> >>] }

NoPdf == [numPages |-> 0, pages |-> <<>>]

----------------------------------------------------------------------------
(* fileService.ts *)

\* fileService.ts:58, the per-page character threshold of the text layer
CharsPerPage == 50

\* a dispatch that tests the MIME type for an image first
KindImageFirst(file) ==
    IF StartsWith(file.type, ImagePrefix) THEN "image"
    ELSE IF file.type = MimePdf \/ EndsWith(file.name, DotPdf) THEN "pdf"
    ELSE IF EndsWith(file.name, DotDocx) THEN "docx"
    ELSE "text"

\* parseDocument's dispatch, first match wins
Kind(file) ==
    IF file.type = MimePdf \/ EndsWith(file.name, DotPdf) THEN "pdf"
    ELSE IF StartsWith(file.type, ImagePrefix) THEN "image"
    ELSE IF EndsWith(file.name, DotDocx) THEN "docx"
    ELSE "text"

\* the preliminary text-layer pass: per page, items joined by a space, then "\n"
RECURSIVE EmbeddedText(_)
EmbeddedText(pages) ==
    IF pages = <<>> THEN <<>>
    ELSE Join(Head(pages), <<SP>>) \o <<NL>> \o EmbeddedText(Tail(pages))

\* a test on the text as extracted, its trailing newline included
NeedsOcrUntrimmed(pdf, fullText) ==
    Len(fullText) < CharsPerPage * pdf.numPages /\ pdf.numPages > 0

\* a test that also sends a layer of exactly 50 characters per page to recognition
NeedsOcrAtThreshold(pdf, fullText) ==
    Len(Trim(fullText)) <= CharsPerPage * pdf.numPages /\ pdf.numPages > 0

\* the low-density test that triggers recognition
NeedsOcr(pdf, fullText) ==
    Len(Trim(fullText)) < CharsPerPage * pdf.numPages /\ pdf.numPages > 0

\* Math.round((i / numPages) * 100)
Progress(i, n) == (200 * i + n) \div (2 * n)

\* a page block that ends with one newline only
PageBlockOneNewline(i, extractedText) ==
    <<"-", "-", "-", SP, "P", "A", "G", "E", SP>> \o NumStr(i)
        \o <<SP, "-", "-", "-", NL>> \o extractedText \o <<NL>>

\* `--- PAGE ${i} ---\n${extractedText}\n\n`
PageBlock(i, extractedText) ==
    <<"-", "-", "-", SP, "P", "A", "G", "E", SP>> \o NumStr(i)
        \o <<SP, "-", "-", "-", NL>> \o extractedText \o <<NL, NL>>

\* What the remote recognition call may do: answer with a text or fail.
OcrReplies == { [ok |-> TRUE, text |-> <<"x">>], [ok |-> FALSE, text |-> <<>>] }

\* geminiService.performVisionOcr: response.text || "", and "" from its catch
PerformVisionOcr(reply) == IF reply.ok THEN reply.text ELSE <<>>

----------------------------------------------------------------------------
(* imageUtils.ts: applyConvolution *)

\* the kernel preprocessCanvas passes (lines 35-39)
SharpenKernel == <<0, -1, 0, -1, 5, -1, 0, -1, 0>>

\* Math.round(Math.sqrt(kernel.length)) for a square kernel
Side(kernel) == CHOOSE s \in 1..Len(kernel) : s * s = Len(kernel)

\* Math.min(255, Math.max(0, v))
ClampByte(v) == IF v < 0 THEN 0 ELSE IF v > 255 THEN 255 ELSE v

\* a lookup that repeats the edge pixel for a position outside the image
SampleEdgeRepeated(src, scx, scy, ch) ==
    LET cx == IF scx < 0 THEN 0 ELSE IF scx >= src.width THEN src.width - 1 ELSE scx
        cy == IF scy < 0 THEN 0 ELSE IF scy >= src.height THEN src.height - 1 ELSE scy
    IN src.data[(cy * src.width + cx) * 4 + ch + 1]

\* srcData[srcOff + ch] under the bounds test of line 62: a position outside
\* the image adds nothing
Sample(src, scx, scy, ch) ==
    IF scy >= 0 /\ scy < src.height /\ scx >= 0 /\ scx < src.width
    THEN src.data[(scy * src.width + scx) * 4 + ch + 1]
    ELSE 0

\* the two inner loops from kernel cell k on: the weighted sum of channel ch
RECURSIVE Weighted(_, _, _, _, _, _)
Weighted(src, kernel, x, y, ch, k) ==
    IF k >= Len(kernel) THEN 0
    ELSE LET side == Side(kernel)
             halfSide == side \div 2
             cy == k \div side
             cx == k % side
         IN Sample(src, x + cx - halfSide, y + cy - halfSide, ch) * kernel[cy * side + cx + 1]
                + Weighted(src, kernel, x, y, ch, k + 1)

\* the image put back on the canvas: data holds r, g, b, a per pixel, row by row
ApplyConvolution(src, kernel) ==
    [width |-> src.width, height |-> src.height,
     data |-> [o \in 1..(src.width * src.height * 4) |->
                  LET ch == (o - 1) % 4
                      x == ((o - 1) \div 4) % src.width
                      y == ((o - 1) \div 4) \div src.width
                  IN IF ch = 3 THEN 255
                     ELSE ClampByte(Weighted(src, kernel, x, y, ch, 0))]]

\* preprocessCanvas, pass 1. Fractions are kept exact: luminances are held as
\* multiples of 1/30000 (a third for the average, ten-thousandths for the
\* weights)
Channel(src, p, ch) == src.data[4 * p + ch + 1]

Pixels(src) == 0..(src.width * src.height - 1)

\* avg = (data[i] + data[i + 1] + data[i + 2]) / 3, times 30000
Avg(src, p) == 10000 * (Channel(src, p, 0) + Channel(src, p, 1) + Channel(src, p, 2))

\* 0.2126 * data[i] + 0.7152 * data[i + 1] + 0.0722 * data[i + 2], times 30000
Luminance(src, p) ==
    3 * (2126 * Channel(src, p, 0) + 7152 * Channel(src, p, 1) + 722 * Channel(src, p, 2))

\* let min = 255, max = 0 and the first loop
MinOf(src) ==
    LET seen == { 255 * 30000 } \cup { Avg(src, p) : p \in Pixels(src) }
    IN CHOOSE m \in seen : \A v \in seen : m <= v

MaxOf(src) ==
    LET seen == { 0 } \cup { Avg(src, p) : p \in Pixels(src) }
    IN CHOOSE m \in seen : \A v \in seen : m >= v

\* max - min || 1
RangeOf(src) == IF MaxOf(src) - MinOf(src) # 0 THEN MaxOf(src) - MinOf(src) ELSE 30000

\* ((gray - min) / range) * 255 as the fraction num / den
Rescaled(src, p) ==
    [num |-> 255 * (Luminance(src, p) - MinOf(src)), den |-> RangeOf(src)]

\* the value a Uint8ClampedArray stores for num / den: nearest, ties to even
ToUint8Clamped(num, den) ==
    LET q == num \div den
        twice == 2 * (num - q * den)
        nearest == IF twice > den \/ (twice = den /\ q % 2 = 1) THEN q + 1 ELSE q
    IN ClampByte(nearest)

\* the thresholds of lines 26-27 and the store of line 29
Whitened(g) ==
    IF g.num > 185 * g.den THEN 255
    ELSE IF g.num < 70 * g.den THEN 0
    ELSE ToUint8Clamped(g.num, g.den)

NormalizeLuminance(src) ==
    [width |-> src.width, height |-> src.height,
     data |-> [o \in 1..(src.width * src.height * 4) |->
                  IF (o - 1) % 4 = 3 THEN src.data[o]
                  ELSE Whitened(Rescaled(src, (o - 1) \div 4))]]

PreprocessCanvas(src) == ApplyConvolution(NormalizeLuminance(src), SharpenKernel)

----------------------------------------------------------------------------
(* JavaScript values and JSON.parse *)

QUOTE == "\""
BSLASH == "\\"
\* the backquote character (a string literal cannot hold it)
BTICK == "backquote"

\* JavaScript values: strings, numbers, booleans, null, undefined, objects
\* (members in source order) and arrays
JsStr(s) == [t |-> "str", s |-> s]
JsNum(n) == [t |-> "num", n |-> n]
JsBool(b) == [t |-> "bool", b |-> b]
JsNull == [t |-> "null"]
JsUndefined == [t |-> "undefined"]
JsObj(members) == [t |-> "obj", m |-> members]
JsArr(elements) == [t |-> "arr", e |-> elements]

\* ToBoolean
Truthy(v) ==
    CASE v.t = "str"  -> v.s # <<>>
      [] v.t = "num"  -> v.n # 0
      [] v.t = "bool" -> v.b
      [] v.t \in {"null", "undefined"} -> FALSE
      [] OTHER -> TRUE

\* property read v.name: the last member of that name, undefined if none
RECURSIVE Lookup(_, _)
Lookup(members, name) ==
    IF members = <<>> THEN JsUndefined
    ELSE IF members[Len(members)][1] = name THEN members[Len(members)][2]
    ELSE Lookup(SubSeq(members, 1, Len(members) - 1), name)

Get(v, name) == IF v.t = "obj" THEN Lookup(v.m, name) ELSE JsUndefined

\* String.prototype.indexOf(pat, from), 1-based; 0 when absent
RECURSIVE IndexFrom(_, _, _)
IndexFrom(s, pat, from) ==
    IF from + Len(pat) - 1 > Len(s) THEN 0
    ELSE IF SubSeq(s, from, from + Len(pat) - 1) = pat THEN from
    ELSE IndexFrom(s, pat, from + 1)

IndexOf(s, pat) == IndexFrom(s, pat, 1)

\* String.prototype.lastIndexOf(c) for one character, 1-based; 0 when absent
RECURSIVE LastIndexOf(_, _)
LastIndexOf(s, c) ==
    IF s = <<>> THEN 0
    ELSE IF s[Len(s)] = c THEN Len(s)
    ELSE LastIndexOf(SubSeq(s, 1, Len(s) - 1), c)

CharAt(s, i) == IF i \in DOMAIN s THEN s[i] ELSE "EOF"

RECURSIVE SkipWs(_, _)
SkipWs(s, i) == IF i <= Len(s) /\ IsWhite(s[i]) THEN SkipWs(s, i + 1) ELSE i

\* A parse either yields a value and the index after it, or fails at a
\* 0-based offset (-1: the input ended, and the message names no position).
Parsed(v, next) == [ok |-> TRUE, val |-> v, next |-> next]
FailAt(s, i) == [ok |-> FALSE, at |-> IF i > Len(s) THEN -1 ELSE i - 1]

DigitValue(c) == CHOOSE d \in 0..9 : Digits[d + 1] = c
IsDigit(c) == \E d \in 0..9 : Digits[d + 1] = c

\* the body of a string literal from index j on, acc the characters so far
RECURSIVE StringBody(_, _, _)
StringBody(s, j, acc) ==
    IF j > Len(s) THEN FailAt(s, j)
    ELSE IF s[j] = QUOTE THEN Parsed(JsStr(acc), j + 1)
    ELSE IF s[j] = NL THEN FailAt(s, j)
    ELSE IF s[j] = BSLASH
         THEN IF j + 1 > Len(s) THEN FailAt(s, j + 1)
              ELSE IF s[j + 1] \in {QUOTE, BSLASH, "/"}
                   THEN StringBody(s, j + 2, Append(acc, s[j + 1]))
              ELSE IF s[j + 1] = "n" THEN StringBody(s, j + 2, Append(acc, NL))
              ELSE FailAt(s, j + 1)
    ELSE StringBody(s, j + 1, Append(acc, s[j]))

RECURSIVE NumberBody(_, _, _)
NumberBody(s, j, n) ==
    IF j <= Len(s) /\ IsDigit(s[j]) THEN NumberBody(s, j + 1, 10 * n + DigitValue(s[j]))
    ELSE Parsed(JsNum(n), j)

\* a literal name (null, true, false) starting at index i
RECURSIVE Literal(_, _, _, _, _)
Literal(s, i, word, k, v) ==
    IF k > Len(word) THEN Parsed(v, i + Len(word))
    ELSE IF CharAt(s, i + k - 1) = word[k] THEN Literal(s, i, word, k + 1, v)
    ELSE FailAt(s, i + k - 1)

RECURSIVE ParseValue(_, _)
RECURSIVE Members(_, _, _)
RECURSIVE Elements(_, _, _)

\* the members of an object, j at the first character of a key
Members(s, j, acc) ==
    IF CharAt(s, j) # QUOTE THEN FailAt(s, j)
    ELSE LET key == StringBody(s, j + 1, <<>>)
         IN IF ~key.ok THEN key
            ELSE LET colon == SkipWs(s, key.next)
                 IN IF CharAt(s, colon) # ":" THEN FailAt(s, colon)
                    ELSE LET v == ParseValue(s, colon + 1)
                         IN IF ~v.ok THEN v
                            ELSE LET sep == SkipWs(s, v.next)
                                     more == Append(acc, <<key.val.s, v.val>>)
                                 IN IF CharAt(s, sep) = "," THEN Members(s, SkipWs(s, sep + 1), more)
                                    ELSE IF CharAt(s, sep) = "}" THEN Parsed(JsObj(more), sep + 1)
                                    ELSE FailAt(s, sep)

\* the elements of an array, j before an element
Elements(s, j, acc) ==
    LET v == ParseValue(s, j)
    IN IF ~v.ok THEN v
       ELSE LET sep == SkipWs(s, v.next)
                more == Append(acc, v.val)
            IN IF CharAt(s, sep) = "," THEN Elements(s, sep + 1, more)
               ELSE IF CharAt(s, sep) = "]" THEN Parsed(JsArr(more), sep + 1)
               ELSE FailAt(s, sep)

ParseValue(s, i0) ==
    LET i == SkipWs(s, i0)
        c == CharAt(s, i)
    IN CASE c = "{" -> (LET j == SkipWs(s, i + 1)
                        IN IF CharAt(s, j) = "}" THEN Parsed(JsObj(<<>>), j + 1)
                           ELSE Members(s, j, <<>>))
         [] c = "[" -> (LET j == SkipWs(s, i + 1)
                        IN IF CharAt(s, j) = "]" THEN Parsed(JsArr(<<>>), j + 1)
                           ELSE Elements(s, j, <<>>))
         [] c = QUOTE -> StringBody(s, i + 1, <<>>)
         [] c = "0" -> Parsed(JsNum(0), i + 1)
         [] c # "0" /\ IsDigit(c) -> NumberBody(s, i, 0)
         [] c = "n" -> Literal(s, i, <<"n", "u", "l", "l">>, 1, JsNull)
         [] c = "t" -> Literal(s, i, <<"t", "r", "u", "e">>, 1, JsBool(TRUE))
         [] c = "f" -> Literal(s, i, <<"f", "a", "l", "s", "e">>, 1, JsBool(FALSE))
         [] OTHER -> FailAt(s, i)

\* after the value v of a text: only white space may follow
EndOfText(s, v) ==
    IF ~v.ok THEN v
    ELSE IF SkipWs(s, v.next) <= Len(s) THEN FailAt(s, SkipWs(s, v.next))
    ELSE v

\* JSON.parse: one value, then only white space
JsonParse(s) == EndOfText(s, ParseValue(s, 1))

----------------------------------------------------------------------------
(* FileUpload.handleFileChange *)

\* no function is applied on its own
NoCall == [fn |-> "none"]

\* a step of the ingestion hands nothing to the generation service
NoRequest == [kind |-> "none", text |-> <<>>]

\* ... and leaves App's and CognitiveSearch's own state alone
Quiet == sent' = NoRequest /\ UNCHANGED <<appVars, searchVars, call, practiceVars, retainVars>>

Placeholder(f) ==
    [name |-> f.name, content |-> <<>>, type |-> f.type, status |-> "processing"]

Placeholders(fileList) == [j \in DOMAIN fileList |-> Placeholder(fileList[j])]

\* prev.map(f => f.name === file.name ? { ...f, content: text, status: 'ready' } : f)
MarkReady(prev, name, text) ==
    [j \in DOMAIN prev |->
        IF prev[j].name = name
        THEN [prev[j] EXCEPT !.content = text, !.status = "ready"]
        ELSE prev[j]]

\* the catch branch without the name test: every entry is marked
MarkErrorAll(prev, name) == [j \in DOMAIN prev |-> [prev[j] EXCEPT !.status = "error"]]

\* prev.map(f => f.name === file.name ? { ...f, status: 'error' } : f)
MarkError(prev, name) ==
    [j \in DOMAIN prev |->
        IF prev[j].name = name THEN [prev[j] EXCEPT !.status = "error"] ELSE prev[j]]

\* The first await parseDocument reaches for a file of each kind.
FirstAwait(file) ==
    CASE Kind(file) = "pdf"   -> "pdfOpen"
      [] Kind(file) = "image" -> "imgRead"
      [] Kind(file) = "docx"  -> "docx"
      [] OTHER                -> "read"

\* The loop moves to file i: parseDocument runs up to its first await, or the
\* loop is over.
Begin(t, i) ==
    IF i > Len(t.fileList)
    THEN [t EXCEPT !.i = i, !.pc = "done", !.pdf = NoPdf, !.page = 0, !.fullText = <<>>]
    ELSE [t EXCEPT !.i = i, !.pc = FirstAwait(t.fileList[i]),
                   !.pdf = NoPdf, !.page = 0, !.fullText = <<>>]

\* parseDocument calls onStatusChange(true) before its first await for an image
BeginsImage(t, i) == i <= Len(t.fileList) /\ Kind(t.fileList[i]) = "image"

NewTask(fileList, base) ==
    [fileList |-> fileList, base |-> base, i |-> 1, pc |-> "done",
     pdf |-> NoPdf, page |-> 0, fullText |-> <<>>,
     out |-> [j \in DOMAIN fileList |-> "pending"],
     txt |-> [j \in DOMAIN fileList |-> <<>>],
     ocrFailed |-> [j \in DOMAIN fileList |-> FALSE]]

\* handleFileChange up to its first await: placeholders, then the first file
HandleFileChange(fileList) ==
    /\ Len(tasks) < MaxSelections
    /\ files' = files \o Placeholders(fileList)
    /\ tasks' = Append(tasks, Begin(NewTask(fileList, Len(files)), 1))
    /\ isCognitiveOcr' = IF BeginsImage(NewTask(fileList, 0), 1) THEN TRUE ELSE isCognitiveOcr
    /\ Quiet
    /\ UNCHANGED ocrProgress

\* await parseDocument(...) returned `text`: the try branch, then the next file.
\* flag and prog are the values the callbacks left behind.
Resolve(k, text, flag, prog) ==
    LET t == tasks[k]
        t1 == [t EXCEPT !.out[t.i] = "ready", !.txt[t.i] = text]
    IN /\ files' = MarkReady(files, t.fileList[t.i].name, text)
       /\ tasks' = [tasks EXCEPT ![k] = Begin(t1, t.i + 1)]
       /\ isCognitiveOcr' = IF BeginsImage(t, t.i + 1) THEN TRUE ELSE flag
       /\ ocrProgress' = prog
       /\ Quiet

\* await parseDocument(...) threw: the catch branch, then the next file
Reject(k) ==
    LET t == tasks[k]
        t1 == [t EXCEPT !.out[t.i] = "error"]
    IN /\ files' = MarkError(files, t.fileList[t.i].name)
       /\ tasks' = [tasks EXCEPT ![k] = Begin(t1, t.i + 1)]
       /\ isCognitiveOcr' = IF BeginsImage(t, t.i + 1) THEN TRUE ELSE isCognitiveOcr
       /\ Quiet
       /\ UNCHANGED ocrProgress

\* a step inside parseDocument that changes only the task's position
Advance(k, t) ==
    /\ tasks' = [tasks EXCEPT ![k] = t]
    /\ Quiet
    /\ UNCHANGED <<files, isCognitiveOcr, ocrProgress>>

At(k, pc) == k \in DOMAIN tasks /\ tasks[k].pc = pc

\* file.arrayBuffer() and pdfjsLib.getDocument(...).promise
PdfOpen(k) ==
    /\ At(k, "pdfOpen")
    /\ \/ \E pdf \in PdfDocs : Advance(k, [tasks[k] EXCEPT !.pc = "pdfText", !.pdf = pdf])
       \/ Reject(k)

\* the text-layer loop (getPage, getTextContent per page), then the decision
PdfText(k) ==
    /\ At(k, "pdfText")
    /\ LET t == tasks[k]
           fullText == EmbeddedText(t.pdf.pages)
       IN \/ t.pdf.numPages > 0 /\ Reject(k)
          \/ /\ NeedsOcr(t.pdf, fullText)
             /\ tasks' = [tasks EXCEPT ![k] =
                    [t EXCEPT !.pc = "pageRender", !.page = 1, !.fullText = <<>>]]
             /\ isCognitiveOcr' = TRUE
             /\ ocrProgress' = Progress(1, t.pdf.numPages)
             /\ Quiet
             /\ UNCHANGED files
          \/ /\ ~NeedsOcr(t.pdf, fullText)
             /\ Resolve(k, fullText, isCognitiveOcr, ocrProgress)

\* pdf.getPage(i) and page.render(...).promise of the recognition loop; on
\* success preprocessCanvas runs and performVisionOcr is called
PageRender(k) ==
    /\ At(k, "pageRender")
    /\ \/ Advance(k, [tasks[k] EXCEPT !.pc = "pageOcr"])
       \/ Reject(k)

\* performVisionOcr returned for page i
PageOcr(k) ==
    /\ At(k, "pageOcr")
    /\ \E reply \in OcrReplies :
        LET t == tasks[k]
            fullText == t.fullText \o PageBlock(t.page, PerformVisionOcr(reply))
            failed == t.ocrFailed[t.i] \/ ~reply.ok
        IN IF t.page < t.pdf.numPages
           THEN /\ tasks' = [tasks EXCEPT ![k] =
                       [t EXCEPT !.pc = "pageRender", !.page = t.page + 1,
                                 !.fullText = fullText, !.ocrFailed[t.i] = failed]]
                /\ ocrProgress' = Progress(t.page + 1, t.pdf.numPages)
                /\ Quiet
                /\ UNCHANGED <<files, isCognitiveOcr>>
           ELSE LET t1 == [t EXCEPT !.out[t.i] = "ready", !.txt[t.i] = fullText,
                                    !.ocrFailed[t.i] = failed]
                IN /\ files' = MarkReady(files, t.fileList[t.i].name, fullText)
                   /\ tasks' = [tasks EXCEPT ![k] = Begin(t1, t.i + 1)]
                   /\ isCognitiveOcr' = BeginsImage(t, t.i + 1)
                   /\ ocrProgress' = 0
                   /\ Quiet

\* extractTextFromImage: FileReader.readAsDataURL; only onload is handled
ImgRead(k) ==
    /\ At(k, "imgRead")
    /\ \/ Advance(k, [tasks[k] EXCEPT !.pc = "imgDecode"])
       \/ Advance(k, [tasks[k] EXCEPT !.pc = "hung"])

\* extractTextFromImage: img.src = ...; only onload is handled
ImgDecode(k) ==
    /\ At(k, "imgDecode")
    /\ \/ Advance(k, [tasks[k] EXCEPT !.pc = "imgOcr"])
       \/ Advance(k, [tasks[k] EXCEPT !.pc = "hung"])

\* extractTextFromImage: performVisionOcr returned, resolve(text); back in
\* parseDocument onStatusChange(false) and return
ImgOcr(k) ==
    /\ At(k, "imgOcr")
    /\ \E reply \in OcrReplies :
        LET t == tasks[k]
            text == PerformVisionOcr(reply)
            t1 == [t EXCEPT !.out[t.i] = "ready", !.txt[t.i] = text,
                            !.ocrFailed[t.i] = ~reply.ok]
        IN /\ files' = MarkReady(files, t.fileList[t.i].name, text)
           /\ tasks' = [tasks EXCEPT ![k] = Begin(t1, t.i + 1)]
           /\ isCognitiveOcr' = BeginsImage(t, t.i + 1)
           /\ Quiet
    /\ UNCHANGED ocrProgress

\* file.arrayBuffer() and mammoth.extractRawText
Docx(k) ==
    /\ At(k, "docx")
    /\ \/ \E text \in Texts : Resolve(k, text, isCognitiveOcr, ocrProgress)
       \/ Reject(k)

\* file.arrayBuffer() and TextDecoder.decode
Read(k) ==
    /\ At(k, "read")
    /\ \/ \E text \in Texts : Resolve(k, text, isCognitiveOcr, ocrProgress)
       \/ Reject(k)

----------------------------------------------------------------------------
(* The requesters: what each hands to the generation service *)

\* a filter that only leaves out the documents still in processing
NotProcessingFiles(fs) == SelectSeq(fs, LAMBDA f : f.status # "processing")

\* files.filter(f => f.status === 'ready')
ReadyFiles(fs) == SelectSeq(fs, LAMBDA f : f.status = "ready")

FilePrefix == <<"F", "I", "L", "E">>

\* the block one document contributes to the context of a requester:
\*   `FILE: ${f.name}\n${f.content}`    (runAnalysis, handleSearch)
\*   `FILE [${f.name}]:\n${f.content}`  (SalesGPT.handleSend)
\*   f.content                          (the suggestions effect)
Block(kind, f) ==
    CASE kind \in {"analysis", "search"} -> FilePrefix \o <<":", SP>> \o f.name \o <<NL>> \o f.content
      [] kind = "chat" -> FilePrefix \o <<SP, "[">> \o f.name \o <<"]", ":", NL>> \o f.content
      [] OTHER -> f.content

\* the separator of the requester's join
Separator(kind) == IF kind = "suggestions" THEN <<NL>> ELSE <<NL, NL>>

\* readyFiles.map(...).join(...)
CombinedContent(kind, fs) ==
    LET readyFiles == ReadyFiles(fs)
    IN Join([j \in DOMAIN readyFiles |-> Block(kind, readyFiles[j])], Separator(kind))

Request(kind) ==
    /\ sent' = [kind |-> kind, text |-> CombinedContent(kind, files)]
    /\ UNCHANGED <<call, practiceVars, retainVars, files, tasks, isCognitiveOcr, ocrProgress, appVars, searchVars>>

\* App.runAnalysis: refuses without a ready document, else analyzeSalesContext
RunAnalysis == ReadyFiles(files) # <<>> /\ Request("analysis")

\* CognitiveSearch.handleSearch: performCognitiveSearchStream(query, combinedContent, context)
SearchRequest == Request("search")

\* CognitiveSearch's effect on [readyFiles, context]: generateDynamicSuggestions
FetchSuggestions == ReadyFiles(files) # <<>> /\ Request("suggestions")

\* SalesGPT.handleSend: streamSalesGPT / streamDeepStudy(input, history, context)
HandleSend == Request("chat")

----------------------------------------------------------------------------
(* CognitiveSearch.tsx: the partial-field extractor and the final parse *)

\* the characters at indexes from..to, cut to the text
Substring(s, from, to) ==
    IF from > to \/ from > Len(s) THEN <<>>
    ELSE SubSeq(s, from, IF to > Len(s) THEN Len(s) ELSE to)

\* String.prototype.replace(/pat/g, rep) for a literal pattern
RECURSIVE ReplaceAll(_, _, _)
ReplaceAll(s, pat, rep) ==
    IF Len(s) < Len(pat) THEN s
    ELSE IF SubSeq(s, 1, Len(pat)) = pat
         THEN rep \o ReplaceAll(SubSeq(s, Len(pat) + 1, Len(s)), pat, rep)
    ELSE <<Head(s)>> \o ReplaceAll(Tail(s), pat, rep)

\* a scan that stops at any quote, escaped or not
RECURSIVE ScanContentAnyQuote(_, _)
ScanContentAnyQuote(json, i) ==
    IF i > Len(json) THEN <<>>
    ELSE IF json[i] = QUOTE THEN <<>>
    ELSE <<json[i]>> \o ScanContentAnyQuote(json, i + 1)

\* the scan of lines 102-107: up to the first quote not preceded by a backslash
RECURSIVE ScanContent(_, _)
ScanContent(json, i) ==
    IF i > Len(json) THEN <<>>
    ELSE IF json[i] = QUOTE /\ (i = 1 \/ json[i - 1] # BSLASH) THEN <<>>
    ELSE <<json[i]>> \o ScanContent(json, i + 1)

ExtractFieldFromPartialJson(json, field) ==
    LET fieldMarker == <<QUOTE>> \o field \o <<QUOTE, ":", SP, QUOTE>>
        startIdx == IndexOf(json, fieldMarker)
        content == ScanContent(json, startIdx + Len(fieldMarker))
    IN IF startIdx = 0 THEN <<>>
       ELSE ReplaceAll(ReplaceAll(content, <<BSLASH, "n">>, <<NL>>),
                       <<BSLASH, QUOTE>>, <<QUOTE>>)

Fence == <<BTICK, BTICK, BTICK>>
JsonTag == <<"j", "s", "o", "n">>

\* str.replace(/```(?:json)?([\s\S]*?)```/g, '$1')
RECURSIVE StripFences(_)
StripFences(s) ==
    LET open == IndexOf(s, Fence)
        tagged == Substring(s, open + 3, open + 6) = JsonTag
        body == IF tagged THEN open + 7 ELSE open + 3
        close == IndexFrom(s, Fence, body)
    IN IF open = 0 \/ close = 0 THEN s
       ELSE SubSeq(s, 1, open - 1) \o SubSeq(s, body, close - 1)
                \o StripFences(SubSeq(s, close + 3, Len(s)))

\* the value of a parse, null if it failed
ValueOrNull(r) == IF r.ok THEN r.val ELSE JsNull

\* tryParse's catch block, r the failed parse: when the SyntaxError's message
\* carries "at position N", JSON.parse of the first N characters; else null.
\* Whether the message carries a position depends on the engine.
Recover(input, reportsPosition, r) ==
    IF reportsPosition /\ r.at >= 0 THEN ValueOrNull(JsonParse(SubSeq(input, 1, r.at)))
    ELSE JsNull

TryParseResult(input, reportsPosition, r) ==
    IF r.ok THEN r.val ELSE Recover(input, reportsPosition, r)

TryParse(input, reportsPosition) ==
    TryParseResult(input, reportsPosition, JsonParse(input))

\* `if (res) return res;` and on to the next strategy
OrElse(res, next) == IF Truthy(res) THEN res ELSE next

\* lines 139-143
Unfenced(trimmed, reportsPosition) ==
    IF IndexOf(trimmed, Fence) # 0
    THEN TryParse(Trim(StripFences(trimmed)), reportsPosition)
    ELSE JsNull

\* lines 145-150
BraceSlice(trimmed, reportsPosition, firstBrace, lastBrace) ==
    IF firstBrace # 0 /\ lastBrace # 0 /\ lastBrace > firstBrace
    THEN TryParse(SubSeq(trimmed, firstBrace, lastBrace), reportsPosition)
    ELSE JsNull

RobustParseTrimmed(trimmed, reportsPosition) ==
    IF trimmed = <<>> THEN JsNull
    ELSE OrElse(TryParse(trimmed, reportsPosition),
           OrElse(Unfenced(trimmed, reportsPosition),
             OrElse(BraceSlice(trimmed, reportsPosition,
                               IndexOf(trimmed, <<"{">>), LastIndexOf(trimmed, "}")),
                    JsNull)))

RobustParse(str, reportsPosition) == RobustParseTrimmed(Trim(str), reportsPosition)

----------------------------------------------------------------------------
(* geminiService.ts: safeJsonParse and performCognitiveSearch *)

\* how a call ends: with a value, or with the thrown Error
Returned(v) == [thrown |-> FALSE, val |-> v]
Thrown == [thrown |-> TRUE, val |-> JsNull]

\* lines 53-58
BracketSlice(trimmed, reportsPosition, firstBracket, lastBracket) ==
    IF firstBracket # 0 /\ lastBracket # 0 /\ lastBracket > firstBracket
    THEN TryParse(SubSeq(trimmed, firstBracket, lastBracket), reportsPosition)
    ELSE JsNull

\* trimmed.match(/\{[\s\S]*\}|\[[\s\S]*\]/): the leftmost match, which runs
\* from the first opening character that has its closing character behind it
\* to the last such closing character; the empty text when nothing matches
RegexMatch(trimmed, firstBrace, lastBrace, firstBracket, lastBracket) ==
    LET braces == firstBrace # 0 /\ lastBrace > firstBrace
        brackets == firstBracket # 0 /\ lastBracket > firstBracket
    IN IF braces /\ (~brackets \/ firstBrace < firstBracket)
       THEN SubSeq(trimmed, firstBrace, lastBrace)
       ELSE IF brackets THEN SubSeq(trimmed, firstBracket, lastBracket)
       ELSE <<>>

\* lines 60-64
RegexSlice(match, reportsPosition) ==
    IF match # <<>> THEN TryParse(match, reportsPosition) ELSE JsNull

\* `if (result) return result;` of the last strategy, then the throw
ReturnOrThrow(res) == IF Truthy(res) THEN Returned(res) ELSE Thrown

SafeJsonParseTrimmed(trimmed, reportsPosition) ==
    IF trimmed = <<>> THEN Returned(JsObj(<<>>))
    ELSE ReturnOrThrow(
           OrElse(TryParse(trimmed, reportsPosition),
             OrElse(Unfenced(trimmed, reportsPosition),
               OrElse(BraceSlice(trimmed, reportsPosition,
                                 IndexOf(trimmed, <<"{">>), LastIndexOf(trimmed, "}")),
                 OrElse(BracketSlice(trimmed, reportsPosition,
                                     IndexOf(trimmed, <<"[">>), LastIndexOf(trimmed, "]")),
                        RegexSlice(RegexMatch(trimmed,
                                       IndexOf(trimmed, <<"{">>), LastIndexOf(trimmed, "}"),
                                       IndexOf(trimmed, <<"[">>), LastIndexOf(trimmed, "]")),
                                   reportsPosition))))))

SafeJsonParse(str, reportsPosition) == SafeJsonParseTrimmed(Trim(str), reportsPosition)

\* fullText += chunk over the fragments of the stream
RECURSIVE Concat(_)
Concat(fragments) ==
    IF fragments = <<>> THEN <<>> ELSE Head(fragments) \o Concat(Tail(fragments))

\* performCognitiveSearch: safeJsonParse(fullText || "{}")
PerformCognitiveSearch(fragments, reportsPosition) ==
    SafeJsonParse(IF Concat(fragments) # <<>> THEN Concat(fragments) ELSE <<"{", "}">>,
                  reportsPosition)

----------------------------------------------------------------------------
(* CognitiveSearch.tsx: the streaming snapshot *)
FieldAnswer ==
    <<"a", "n", "s", "w", "e", "r">>
FieldArticularSoundbite ==
    <<"a", "r", "t", "i", "c", "u", "l", "a", "r", "S", "o", "u", "n", "d",
      "b", "i", "t", "e">>
FieldBriefExplanation ==
    <<"b", "r", "i", "e", "f", "E", "x", "p", "l", "a", "n", "a", "t", "i",
      "o", "n">>
FieldBuyerFear ==
    <<"b", "u", "y", "e", "r", "F", "e", "a", "r">>
FieldBuyerIncentive ==
    <<"b", "u", "y", "e", "r", "I", "n", "c", "e", "n", "t", "i", "v", "e">>
FieldStrategicLever ==
    <<"s", "t", "r", "a", "t", "e", "g", "i", "c", "L", "e", "v", "e", "r">>

\* the placeholder "..."
Ellipsis == <<".", ".", ".">>

\* a || b on strings
Or(a, b) == IF a # <<>> THEN a ELSE b

\* the result state before anything is exposed (null)
NoResult == [t |-> "none"]

IsSnapshot(r) == r.t = "snapshot"

\* the buffer replaced by the fragment instead of extended by it
KeepChunkOnly(fullBuffer, chunk) == chunk

\* fullBuffer += chunk
Accumulate(fullBuffer, chunk) == fullBuffer \o chunk

\* partialAnswer || partialSoundbite || partialBrief
AnyPartial(fullBuffer) ==
    \/ ExtractFieldFromPartialJson(fullBuffer, FieldAnswer) # <<>>
    \/ ExtractFieldFromPartialJson(fullBuffer, FieldArticularSoundbite) # <<>>
    \/ ExtractFieldFromPartialJson(fullBuffer, FieldBriefExplanation) # <<>>

\* lines 190-209: the state setResult leaves after one fragment
Snapshot(prev, fullBuffer) ==
    LET partialAnswer == ExtractFieldFromPartialJson(fullBuffer, FieldAnswer)
        partialSoundbite == ExtractFieldFromPartialJson(fullBuffer, FieldArticularSoundbite)
        partialBrief == ExtractFieldFromPartialJson(fullBuffer, FieldBriefExplanation)
    IN IF ~AnyPartial(fullBuffer) THEN prev
       ELSE [t |-> "snapshot",
             answer |-> partialAnswer,
             articularSoundbite |->
                 Or(partialSoundbite, IF IsSnapshot(prev) THEN prev.articularSoundbite ELSE <<>>),
             briefExplanation |->
                 Or(partialBrief, IF IsSnapshot(prev) THEN prev.briefExplanation ELSE <<>>),
             psychologicalProjection |->
                 IF IsSnapshot(prev) THEN prev.psychologicalProjection
                 ELSE [buyerFear |-> Or(ExtractFieldFromPartialJson(fullBuffer, FieldBuyerFear), Ellipsis),
                       buyerIncentive |-> Or(ExtractFieldFromPartialJson(fullBuffer, FieldBuyerIncentive), Ellipsis),
                       strategicLever |-> Or(ExtractFieldFromPartialJson(fullBuffer, FieldStrategicLever), Ellipsis)],
             citations |-> <<>>,
             reasoningChain |-> [painPoint |-> Ellipsis, capability |-> Ellipsis,
                                 strategicValue |-> Ellipsis]]

\* setStreamingText(partialAnswer), under the same condition
StreamingText(prev, fullBuffer) ==
    IF ~AnyPartial(fullBuffer) THEN prev
    ELSE JsStr(ExtractFieldFromPartialJson(fullBuffer, FieldAnswer))

----------------------------------------------------------------------------
(* Inputs of the search side *)

\* MeetingContext, the fields that enter the search prompt; the value App
\* starts with
InitialContext ==
    [sellerNames |-> "", sellerCompany |-> "", clientNames |-> "", clientCompany |-> "",
     persona |-> "Balanced", meetingFocus |-> "", executiveSnapshot |-> "",
     answerStyles |-> <<"Executive Summary", "Concise Answer">>]

\* what the configuration form may be set to
Contexts ==
    { InitialContext,
      [InitialContext EXCEPT !.meetingFocus = "renewal"],
      [InitialContext EXCEPT !.persona = "Technical"] }

\* what the user may type into the search box
Queries == { <<"q">>, <<"Q", SP>> }

\* a suggestion the user may click (customQuery); <<>> is a submit of the form
CustomQueries == { <<>>, <<"r">> }

Tabs == { "context", "strategy", "search" }

\* the file lists picked in the runs of the search side
SearchSelections == { <<FileTxt>> }

\* what the generation service may stream for one request
CompleteReply ==
    <<"{", "\"", "a", "n", "s", "w", "e", "r", "\"", ":", " ", "\"", "a",
      "\\", "n", "b", "\\", "\"", "c", "\"", ",", " ", "\"", "b", "r", "i",
      "e", "f", "E", "x", "p", "l", "a", "n", "a", "t", "i", "o", "n", "\"",
      ":", " ", "\"", "B", "\"", "}">>

SoundbiteReply ==
    <<"{", "\"", "a", "r", "t", "i", "c", "u", "l", "a", "r", "S", "o", "u",
      "n", "d", "b", "i", "t", "e", "\"", ":", " ", "\"", "S", "\"", ",",
      " ", "\"", "a", "n", "s", "w", "e", "r", "\"", ":", " ", "\"", "a",
      "\"", "}">>

TruncatedReply ==
    <<"{", "\"", "a", "n", "s", "w", "e", "r", "\"", ":", " ", "\"", "a", "b">>

\* a reply whose projection field arrives after the answer
FearReply ==
    <<"{", "\"", "a", "n", "s", "w", "e", "r", "\"", ":", " ", "\"", "a",
      "\"", ",", " ", "\"", "b", "u", "y", "e", "r", "F", "e", "a", "r",
      "\"", ":", " ", "\"", "f", "\"", "}">>

ReplyA ==
    <<"{", "\"", "a", "n", "s", "w", "e", "r", "\"", ":", " ", "\"", "a",
      "\"", "}">>

ReplyB ==
    <<"{", "\"", "a", "n", "s", "w", "e", "r", "\"", ":", " ", "\"", "b",
      "\"", "}">>

StreamReplies == { CompleteReply, SoundbiteReply, TruncatedReply, FearReply }

CacheReplies == { ReplyA, ReplyB }

----------------------------------------------------------------------------
(* App: analysis, tabs, configuration *)

IsAnyFileProcessing == \E n \in DOMAIN files : files[n].status = "processing"

\* generateStateHash: the name and the length of the content of every
\* document, and the configuration
GenerateStateHash(fs, ctx) ==
    [t |-> "hash",
     fileIds |-> [j \in DOMAIN fs |-> [name |-> fs[j].name, length |-> Len(fs[j].content)]],
     ctxString |-> ctx]

\* analyzeSalesContext(combinedContent, meetingContext)
AnalysisInputs == [text |-> CombinedContent("analysis", files), context |-> context]

\* the setup screen shown whether an analysis is held or not
SetupVisibleAlways == TRUE

\* the upload panel and the configuration form are on screen
SetupVisible == ~analysis

ConfigVisible == ~analysis \/ activeTab = "context"

\* <CognitiveSearch> is mounted
SearchMounted == analysis /\ activeTab = "search"

\* the state of a freshly mounted CognitiveSearch; n counts the requests
\* accepted so far in the run
IdleRequest(n, outcome) ==
    [pc |-> "idle", n |-> n, outcome |-> outcome, fullBuffer |-> <<>>, rest |-> <<>>,
     cacheKey |-> <<>>, prompt |-> <<>>, cached |-> NoResult, storedPrompt |-> <<>>]

Unmount ==
    /\ query' = <<>>
    /\ isSearching' = FALSE
    /\ result' = NoResult
    /\ streamingText' = JsStr(<<>>)
    /\ error' = JsNull
    /\ isFromCache' = FALSE
    /\ searchCache' = {}
    /\ req' = IdleRequest(req.n, "none")

\* the button of the setup screen (enabled with a ready document and none in
\* processing) runs runAnalysis; on success the tabs appear on 'strategy'
SynthesizeStrategy ==
    /\ SetupVisible
    /\ ReadyFiles(files) # <<>> /\ ~IsAnyFileProcessing
    /\ IF analysis /\ GenerateStateHash(files, context) = lastAnalyzedHash
       THEN /\ activeTab' = "strategy"
            /\ sent' = NoRequest
            /\ UNCHANGED <<analysis, retainVars>>
       ELSE /\ Len(analyzed) < MaxAnalyses
            /\ sent' = [kind |-> "analysis", text |-> CombinedContent("analysis", files)]
            /\ \E ok \in BOOLEAN :
                IF ok
                THEN /\ analysis' = TRUE
                     /\ lastAnalyzedHash' = GenerateStateHash(files, context)
                     /\ analyzed' = Append(analyzed, AnalysisInputs)
                     /\ activeTab' = "strategy"
                ELSE UNCHANGED <<analysis, retainVars, activeTab>>
    /\ UNCHANGED <<call, practiceVars, files, tasks, isCognitiveOcr, ocrProgress, context, searchVars>>

\* a tab button; leaving 'search' unmounts CognitiveSearch and its cache
SetActiveTab(tab) ==
    /\ analysis
    /\ tab # activeTab
    /\ activeTab' = tab
    /\ IF activeTab = "search" THEN Unmount ELSE UNCHANGED searchVars
    /\ sent' = NoRequest
    /\ UNCHANGED <<call, practiceVars, retainVars, files, tasks, isCognitiveOcr, ocrProgress, analysis, context>>

\* MeetingContextConfig's onContextChange
ContextChange(ctx) ==
    /\ ConfigVisible
    /\ ctx # context
    /\ context' = ctx
    /\ sent' = NoRequest
    /\ UNCHANGED <<call, practiceVars, retainVars, files, tasks, isCognitiveOcr, ocrProgress, analysis, activeTab, searchVars>>

\* the button that discards the analysis and the documents
Reset ==
    /\ analysis
    /\ files' = <<>>
    /\ analysis' = FALSE
    /\ lastAnalyzedHash' = JsNull
    /\ activeTab' = "context"
    /\ IF activeTab = "search" THEN Unmount ELSE UNCHANGED searchVars
    /\ sent' = NoRequest
    /\ UNCHANGED <<call, practiceVars, tasks, isCognitiveOcr, ocrProgress, context, analyzed>>

----------------------------------------------------------------------------
(* CognitiveSearch.handleSearch *)

\* String.prototype.toLowerCase on the letters of the queries
ToLowerCase(s) == [k \in DOMAIN s |-> CASE s[k] = "Q" -> "q" [] s[k] = "R" -> "r" [] OTHER -> s[k]]

\* readyFiles.map(f => f.name + f.content.length), styles, persona
ContextFingerprint ==
    LET readyFiles == ReadyFiles(files)
    IN [files |-> [j \in DOMAIN readyFiles |->
                      readyFiles[j].name \o NumStr(Len(readyFiles[j].content))],
        styles |-> context.answerStyles,
        persona |-> context.persona]

\* what performCognitiveSearchStream puts into the prompt
Prompt(question, filesContent, ctx) ==
    [question |-> question, filesContent |-> filesContent,
     sellerNames |-> ctx.sellerNames, sellerCompany |-> ctx.sellerCompany,
     clientNames |-> ctx.clientNames, clientCompany |-> ctx.clientCompany,
     persona |-> ctx.persona, meetingFocus |-> ctx.meetingFocus,
     executiveSnapshot |-> ctx.executiveSnapshot, answerStyles |-> ctx.answerStyles]

HasKey(cache, key) == \E e \in cache : e.key = key

EntryOf(cache, key) == CHOOSE e \in cache : e.key = key

\* Map.prototype.set; prompt records what the stored answer was generated from
CacheSet(cache, key, value, prompt) ==
    { e \in cache : e.key # key } \cup { [key |-> key, value |-> value, prompt |-> prompt] }

\* handleSearch up to its first await (a miss) or to its return (a hit), called
\* by the form or by a suggestion button (shown while nothing is displayed,
\* and setting the query as well)
HandleSearch(customQuery, replies) ==
    LET activeQuery == ToLowerCase(Trim(IF customQuery # <<>> THEN customQuery ELSE query))
        cacheKey == [query |-> activeQuery, fingerprint |-> ContextFingerprint]
        combinedContent == CombinedContent("search", files)
        prompt == Prompt(activeQuery, combinedContent, context)
    IN /\ SearchMounted
       /\ req.n < MaxSearches
       /\ activeQuery # <<>> /\ ~isSearching
       /\ customQuery # <<>> => result.t = "none"
       /\ query' = IF customQuery # <<>> THEN customQuery ELSE query
       /\ isSearching' = TRUE
       /\ result' = NoResult
       /\ streamingText' = JsStr(<<>>)
       /\ IF HasKey(searchCache, cacheKey)
          THEN /\ isFromCache' = TRUE
               /\ req' = [IdleRequest(req.n + 1, "none") EXCEPT
                            !.pc = "timer", !.cacheKey = cacheKey, !.prompt = prompt,
                            !.cached = EntryOf(searchCache, cacheKey).value,
                            !.storedPrompt = EntryOf(searchCache, cacheKey).prompt]
               /\ sent' = NoRequest
               /\ UNCHANGED error
          ELSE /\ isFromCache' = FALSE
               /\ error' = JsNull
               /\ \E reply \in replies :
                    req' = [IdleRequest(req.n + 1, "none") EXCEPT
                              !.pc = "streaming", !.cacheKey = cacheKey, !.prompt = prompt,
                              !.rest = reply]
               /\ sent' = [kind |-> "search", text |-> combinedContent]
       /\ UNCHANGED <<call, practiceVars, retainVars, files, tasks, isCognitiveOcr, ocrProgress, appVars, searchCache>>

\* the input's onChange
SetQuery(q) ==
    /\ SearchMounted
    /\ q # query
    /\ query' = q
    /\ sent' = NoRequest
    /\ UNCHANGED <<call, practiceVars, retainVars, files, tasks, isCognitiveOcr, ocrProgress, appVars,
                   isSearching, result, streamingText, error, isFromCache, searchCache, req>>

\* the 300 ms timer of a cache hit
CacheTimer ==
    /\ req.pc = "timer"
    /\ result' = req.cached
    /\ streamingText' = Get(req.cached, FieldAnswer)
    /\ isSearching' = FALSE
    /\ req' = IdleRequest(req.n, "cached")
    /\ sent' = NoRequest
    /\ UNCHANGED <<call, practiceVars, retainVars, files, tasks, isCognitiveOcr, ocrProgress, appVars,
                   query, error, isFromCache, searchCache>>

\* one turn of the for-await loop: the stream yields the next fragment, of
\* any length
StreamChunk ==
    /\ req.pc = "streaming"
    /\ \E n \in 0..Len(req.rest) :
        LET chunk == SubSeq(req.rest, 1, n)
            fullBuffer == Accumulate(req.fullBuffer, chunk)
        IN /\ req' = [req EXCEPT !.fullBuffer = fullBuffer,
                                 !.rest = SubSeq(req.rest, n + 1, Len(req.rest))]
           /\ result' = Snapshot(result, fullBuffer)
           /\ streamingText' = StreamingText(streamingText, fullBuffer)
    /\ sent' = NoRequest
    /\ UNCHANGED <<call, practiceVars, retainVars, files, tasks, isCognitiveOcr, ocrProgress, appVars,
                   query, isSearching, error, isFromCache, searchCache>>

\* the displayed result cached when the final parse fails
FinishCachingDisplayed(finalResult) ==
    /\ IF Truthy(finalResult)
       THEN /\ result' = finalResult
            /\ streamingText' = Get(finalResult, FieldAnswer)
            /\ searchCache' = CacheSet(searchCache, req.cacheKey, finalResult, req.prompt)
            /\ req' = IdleRequest(req.n, "parsed")
       ELSE /\ req' = IdleRequest(req.n, "parseFailed")
            /\ searchCache' = IF result = NoResult THEN searchCache
                              ELSE CacheSet(searchCache, req.cacheKey, result, req.prompt)
            /\ UNCHANGED <<result, streamingText>>
    /\ isSearching' = FALSE

\* lines 213-217, and the finally block
Finish(finalResult) ==
    /\ IF Truthy(finalResult)
       THEN /\ result' = finalResult
            /\ streamingText' = Get(finalResult, FieldAnswer)
            /\ searchCache' = CacheSet(searchCache, req.cacheKey, finalResult, req.prompt)
            /\ req' = IdleRequest(req.n, "parsed")
       ELSE /\ req' = IdleRequest(req.n, "parseFailed")
            /\ UNCHANGED <<result, streamingText, searchCache>>
    /\ isSearching' = FALSE

\* the stream is over: robustParse(fullBuffer) and what follows it
StreamEnd ==
    /\ req.pc = "streaming"
    /\ req.rest = <<>>
    /\ \E reportsPosition \in BOOLEAN : Finish(RobustParse(req.fullBuffer, reportsPosition))
    /\ sent' = NoRequest
    /\ UNCHANGED <<call, practiceVars, retainVars, files, tasks, isCognitiveOcr, ocrProgress, appVars,
                   query, error, isFromCache>>

ErrorMessage == JsStr(<<"f", "a", "i", "l", "e", "d">>)

\* the catch block without the finally block
StreamFailStillSearching ==
    /\ req.pc = "streaming"
    /\ error' = ErrorMessage
    /\ req' = IdleRequest(req.n, "streamFailed")
    /\ sent' = NoRequest
    /\ UNCHANGED <<call, practiceVars, retainVars, files, tasks, isCognitiveOcr, ocrProgress, appVars,
                   query, isSearching, result, streamingText, isFromCache, searchCache>>

\* the stream throws (the service call or an iteration fails): the catch
\* block, and the finally block
StreamFail ==
    /\ req.pc = "streaming"
    /\ error' = ErrorMessage
    /\ isSearching' = FALSE
    /\ req' = IdleRequest(req.n, "streamFailed")
    /\ sent' = NoRequest
    /\ UNCHANGED <<call, practiceVars, retainVars, files, tasks, isCognitiveOcr, ocrProgress, appVars,
                   query, result, streamingText, isFromCache, searchCache>>

----------------------------------------------------------------------------
(* PracticeSession: the live session and its transcription *)

\* useState({ user: '', ai: '' })
EmptyTurn == [user |-> <<>>, ai |-> <<>>]

\* no live session yet
NoSession == [open |-> FALSE, n |-> 0, closure |-> EmptyTurn, decoding |-> <<>>,
              heard |-> EmptyTurn, turns |-> <<>>]

\* the state of a freshly mounted PracticeSession
PracticeInit ==
    /\ status = "idle"
    /\ isActive = FALSE
    /\ transcription = <<>>
    /\ currentTranscription = EmptyTurn
    /\ live = NoSession

\* message.serverContent?.inputTranscription / outputTranscription
NoTranscription == [present |-> FALSE, text |-> <<>>]

Transcribed(text) == [present |-> TRUE, text |-> text]

\* the server messages: audio of the model turn or none, a piece of the
\* user's or of the model's transcription or none, the end of the turn or not
ServerMessages ==
    [ audio : BOOLEAN,
      inputTranscription : { NoTranscription, Transcribed(<<"u">>) },
      outputTranscription : { NoTranscription, Transcribed(<<"v">>) },
      turnComplete : BOOLEAN ]

\* what the messages say, in the order of their arrival: the text since the
\* last end of turn, and the turns ended so far
Hear(session, message) ==
    LET all == [user |-> session.heard.user \o message.inputTranscription.text,
                ai |-> session.heard.ai \o message.outputTranscription.text]
    IN IF message.turnComplete
       THEN [session EXCEPT !.heard = EmptyTurn, !.turns = Append(session.turns, all)]
       ELSE [session EXCEPT !.heard = all]

\* lines 114-119: the functional updates of currentTranscription
AddPieces(prev, message) ==
    [user |-> IF message.inputTranscription.present
              THEN prev.user \o message.inputTranscription.text ELSE prev.user,
     ai   |-> IF message.outputTranscription.present
              THEN prev.ai \o message.outputTranscription.text ELSE prev.ai]

\* lines 114-123 of onmessage; `closure` is the currentTranscription of the
\* render whose startPractice made the callback
Transcribe(message, closure) ==
    /\ transcription' = IF message.turnComplete
                        THEN Append(transcription, [user |-> closure.user, ai |-> closure.ai])
                        ELSE transcription
    /\ currentTranscription' = IF message.turnComplete THEN EmptyTurn
                               ELSE AddPieces(currentTranscription, message)

\* the state outside PracticeSession
outside ==
    <<files, tasks, isCognitiveOcr, ocrProgress, sent, appVars, searchVars, call, retainVars>>

\* the button 'Start Simulation' (shown while not active, disabled while
\* connecting): startPractice up to its first await
StartPractice ==
    /\ ~isActive /\ status # "connecting"
    /\ live.n < MaxMessages
    /\ status' = "connecting"
    /\ live' = [live EXCEPT !.open = FALSE, !.closure = currentTranscription]
    /\ UNCHANGED <<isActive, transcription, currentTranscription, outside>>

\* getUserMedia or the connection fails: the catch block
ConnectFails ==
    /\ status = "connecting"
    /\ status' = "error"
    /\ UNCHANGED <<isActive, transcription, currentTranscription, live, outside>>

\* onopen
OnOpen ==
    /\ status = "connecting"
    /\ status' = "active"
    /\ isActive' = TRUE
    /\ live' = [live EXCEPT !.open = TRUE]
    /\ UNCHANGED <<transcription, currentTranscription, outside>>

\* onmessage up to its await (a message with audio) or to its end
OnMessage(message) ==
    /\ live.open
    /\ live.n < MaxMessages
    /\ IF message.audio
       THEN /\ live' = [Hear(live, message) EXCEPT
                          !.n = live.n + 1,
                          !.decoding = Append(live.decoding,
                                              [message |-> message, closure |-> live.closure])]
            /\ UNCHANGED <<transcription, currentTranscription>>
       ELSE /\ live' = [Hear(live, message) EXCEPT !.n = live.n + 1]
            /\ Transcribe(message, live.closure)
    /\ UNCHANGED <<status, isActive, outside>>

\* decodeAudioData settles for the i-th message waiting for it: the rest of
\* onmessage
Decoded(i) ==
    /\ i \in DOMAIN live.decoding
    /\ Transcribe(live.decoding[i].message, live.decoding[i].closure)
    /\ live' = [live EXCEPT !.decoding =
                  SubSeq(live.decoding, 1, i - 1) \o SubSeq(live.decoding, i + 1, Len(live.decoding))]
    /\ UNCHANGED <<status, isActive, outside>>

\* stopPractice: the button 'End Simulation', onclose, and the end of onerror
StopPractice ==
    /\ live.open
    /\ isActive' = FALSE
    /\ status' = "idle"
    /\ live' = [live EXCEPT !.open = FALSE]
    /\ UNCHANGED <<transcription, currentTranscription, outside>>

----------------------------------------------------------------------------
(* Specification of the ingestion side *)

Init ==
    /\ files = <<>>
    /\ tasks = <<>>
    /\ isCognitiveOcr = FALSE
    /\ ocrProgress = 0
    /\ sent = NoRequest
    /\ analysis = FALSE
    /\ activeTab = "context"
    /\ context = InitialContext
    /\ query = <<>>
    /\ isSearching = FALSE
    /\ result = NoResult
    /\ streamingText = JsStr(<<>>)
    /\ error = JsNull
    /\ isFromCache = FALSE
    /\ searchCache = {}
    /\ req = IdleRequest(0, "none")
    /\ call = NoCall
    /\ PracticeInit
    /\ lastAnalyzedHash = JsNull
    /\ analyzed = <<>>

\* one step of the k-th handleFileChange call: an awaited operation settles
TaskStep(k) ==
    \/ PdfOpen(k)
    \/ PdfText(k)
    \/ PageRender(k)
    \/ PageOcr(k)
    \/ ImgRead(k)
    \/ ImgDecode(k)
    \/ ImgOcr(k)
    \/ Docx(k)
    \/ Read(k)

Next ==
    \/ \E fileList \in Selections : HandleFileChange(fileList)
    \/ \E k \in 1..MaxSelections : TaskStep(k)

Spec == Init /\ [][Next]_vars

\* ingestion with the requesters running beside it
RequestSelections == { <<FilePng, FileTxt>>, <<FilePdf>>, <<FileDocx>> }

RequestNext ==
    \/ \E fileList \in RequestSelections : HandleFileChange(fileList)
    \/ \E k \in 1..MaxSelections : TaskStep(k)
    \/ RunAnalysis
    \/ SearchRequest
    \/ FetchSuggestions
    \/ HandleSend

RequestSpec == Init /\ [][RequestNext]_vars

\* every awaited operation eventually settles (reports success or failure)
FairSpec == Spec /\ \A k \in 1..MaxSelections : WF_vars(TaskStep(k))

----------------------------------------------------------------------------
(* Specifications of the search side *)

\* the part of a run outside CognitiveSearch: one text file per selection,
\* the analysis, the tabs
AppStep ==
    \/ SetupVisible /\ \E fileList \in SearchSelections : HandleFileChange(fileList)
    \/ \E k \in 1..MaxSelections : Read(k)
    \/ SynthesizeStrategy
    \/ \E tab \in Tabs : SetActiveTab(tab)

SearchStep(replies) ==
    \/ \E q \in Queries : SetQuery(q)
    \/ \E customQuery \in CustomQueries : HandleSearch(customQuery, replies)
    \/ CacheTimer
    \/ StreamChunk
    \/ StreamEnd
    \/ StreamFail

StreamNext == SearchStep(StreamReplies)

\* CognitiveSearch just mounted over one Ready document: the state after one
\* selection of a text file, its read, the analysis and a click on the tab
StreamInit ==
    /\ files = MarkReady(Placeholders(<<FileTxt>>), FileTxt.name, <<"x">>)
    /\ tasks = << Begin([NewTask(<<FileTxt>>, 0) EXCEPT !.out[1] = "ready",
                                                          !.txt[1] = <<"x">>], 2) >>
    /\ isCognitiveOcr = FALSE
    /\ ocrProgress = 0
    /\ sent = NoRequest
    /\ analysis = TRUE
    /\ activeTab = "search"
    /\ context = InitialContext
    /\ query = <<>>
    /\ isSearching = FALSE
    /\ result = NoResult
    /\ streamingText = JsStr(<<>>)
    /\ error = JsNull
    /\ isFromCache = FALSE
    /\ searchCache = {}
    /\ req = IdleRequest(0, "none")
    /\ call = NoCall
    /\ PracticeInit
    /\ lastAnalyzedHash = JsNull
    /\ analyzed = <<>>

\* searches over every reply and every split of it, the documents and the
\* configuration fixed
StreamSpec == StreamInit /\ [][StreamNext]_vars

\* the timer of a cache hit fires, and the fragment stream ends or fails
FairStreamSpec == StreamSpec /\ WF_vars(CacheTimer) /\ WF_vars(StreamFail \/ StreamEnd)

CacheNext ==
    \/ AppStep
    \/ \E ctx \in Contexts : ContextChange(ctx)
    \/ SearchStep(CacheReplies)

\* searches beside changes of the documents and of the configuration
CacheSpec == Init /\ [][CacheNext]_vars

----------------------------------------------------------------------------
(* Specification of the analysis and its reuse *)

AnalysisNext ==
    \/ AppStep
    \/ \E ctx \in Contexts : ContextChange(ctx)
    \/ Reset

\* documents picked and read, analyses, changes of the configuration, resets
AnalysisSpec == Init /\ [][AnalysisNext]_vars

----------------------------------------------------------------------------
(* Specification of the practice session *)

PracticeNext ==
    \/ StartPractice
    \/ ConnectFails
    \/ OnOpen
    \/ \E message \in ServerMessages : OnMessage(message)
    \/ \E i \in 1..MaxMessages : Decoded(i)
    \/ StopPractice

PracticeSpec == Init /\ [][PracticeNext]_vars

----------------------------------------------------------------------------
(* Functions of the services, applied on their own *)

\* everything but the record of the call
others ==
    <<files, tasks, isCognitiveOcr, ocrProgress, sent, appVars, searchVars, practiceVars,
      retainVars>>

\* JSON documents a model reply may hold: an object, an array, a number,
\* null, and an object with a fence inside a string
Document ==
    <<"{", "\"", "a", "\"", ":", " ", "1", "}">>
TicksDocument ==
    <<"{", "\"", "a", "\"", ":", " ", "\"">> \o Fence \o <<"\"", "}">>
FencedDocuments ==
    { Document, TicksDocument, <<"[", "1", "]">>, <<"0">>, <<"n", "u", "l", "l">> }

\* further documents that are a single value: false, the empty string, true
BareValues ==
    { <<"f", "a", "l", "s", "e">>, <<QUOTE, QUOTE>>, <<"t", "r", "u", "e">> }

\* a document wrapped in a Markdown fence, with or without the json tag
Wrap(doc, tagged) ==
    Fence \o (IF tagged THEN JsonTag ELSE <<>>) \o <<NL>> \o doc \o <<NL>> \o Fence

InProse == <<"s", "e", "e", SP>> \o Document \o <<SP, "o", "k">>
ListInProse == <<"x", SP, "[", "1", "]", SP, "y">>

\* the fragment sequences a stream may deliver
FragmentLists ==
    { <<>>, << <<>> >>, << <<SP>> >>, << <<SP>>, <<NL, SP>> >>,
      << Document >>, << <<"{">>, <<"}">> >>,
      << SubSeq(Document, 1, 4), SubSeq(Document, 5, Len(Document)) >>,
      << InProse >>, << ListInProse >>, << TruncatedReply >>, << <<"x">> >> }
    \cup { << Wrap(doc, tagged) >> : doc \in FencedDocuments, tagged \in BOOLEAN }
    \cup { << doc >> : doc \in FencedDocuments \cup BareValues }

CallPerformCognitiveSearch ==
    \E fragments \in FragmentLists, reportsPosition \in BOOLEAN :
        /\ call = NoCall
        /\ call' = [fn |-> "performCognitiveSearch", fragments |-> fragments,
                    reportsPosition |-> reportsPosition,
                    out |-> PerformCognitiveSearch(fragments, reportsPosition)]
        /\ UNCHANGED others

\* the files parseDocument may be handed: every name under every MIME type
MimeUnknown == <<"x", "/", "y">>
DispatchNames ==
    { <<"a">> \o DotPdf, <<"r", ".", "P", "D", "F">>, <<"d">> \o DotDocx,
      <<"d", ".", "D", "O", "C", "X">>, <<"b", ".", "p", "n", "g">>,
      <<"c", ".", "t", "x", "t">>, <<"s", "c", "a", "n">> }
DispatchTypes == { <<>>, MimeUnknown, MimePdf, MimePng, MimeTxt }
DispatchFiles == [name : DispatchNames, type : DispatchTypes]

CallParseDocument ==
    \E file \in DispatchFiles :
        /\ call = NoCall
        /\ call' = [fn |-> "parseDocument", file |-> file, path |-> Kind(file)]
        /\ UNCHANGED others

\* a PDF of n pages whose text layer is the given items on page 1 and
\* nothing on the other pages
FirstPageOnly(n, items) ==
    [numPages |-> n, pages |-> [i \in 1..n |-> IF i = 1 THEN items ELSE <<>>]]

\* a PDF with one text item of the given length on each page
OneItemPerPage(lengths) ==
    [numPages |-> Len(lengths),
     pages |-> [i \in DOMAIN lengths |-> << Rep("x", lengths[i]) >>]]

\* the text layers around the threshold: one item on either side of 50 and
\* of 150 characters, items spread over the pages, several items on a page,
\* an item of blanks, and no layer at all
ThresholdPdfs ==
    { FirstPageOnly(1, << Rep("x", len) >>) :
          len \in (CharsPerPage - 2)..(CharsPerPage + 2) }
    \cup { FirstPageOnly(3, << Rep("x", len) >>) :
          len \in (3 * CharsPerPage - 5)..(3 * CharsPerPage + 5) }
    \cup { OneItemPerPage(<<50, 49, 49>>), OneItemPerPage(<<50, 50, 51>>),
           OneItemPerPage(<<40, 40, 40>>),
           FirstPageOnly(3, << Rep("x", 74), Rep("y", 74) >>),
           FirstPageOnly(3, << Rep(SP, 151) >>),
           FirstPageOnly(3, <<>>), FirstPageOnly(0, <<>>) }

\* extractTextFromPdf up to its decision (lines 48-58)
CallExtractTextFromPdf ==
    \E pdf \in ThresholdPdfs :
        /\ call = NoCall
        /\ call' = [fn |-> "extractTextFromPdf", pdf |-> pdf,
                    fallback |-> NeedsOcr(pdf, EmbeddedText(pdf.pages))]
        /\ UNCHANGED others

\* robustParse of handleSearch on the buffer of a finished stream
CallRobustParse ==
    \E fragments \in FragmentLists, reportsPosition \in BOOLEAN :
        /\ call = NoCall
        /\ call' = [fn |-> "robustParse", fragments |-> fragments,
                    reportsPosition |-> reportsPosition,
                    out |-> RobustParse(Concat(fragments), reportsPosition)]
        /\ UNCHANGED others

\* the buffers and field names the extractor is applied to: every text of
\* up to MaxTail characters out of quote, backslash, n and x after the marker
\* of field a, the same behind an earlier field or a second marker of a, and
\* the texts alone
TailChars == { QUOTE, BSLASH, "n", "x" }
Tails == UNION { [1..k -> TailChars] : k \in 0..MaxTail }
MarkerA == <<QUOTE, "a", QUOTE, ":", SP, QUOTE>>
MarkerB == <<QUOTE, "b", QUOTE, ":", SP, QUOTE>>
ExtractBuffers ==
    Tails
    \cup { <<"{">> \o MarkerA \o tail : tail \in Tails }
    \cup { <<"{">> \o MarkerB \o <<"x", QUOTE, ",", SP>> \o MarkerA \o tail : tail \in Tails }
    \cup { MarkerA \o tail \o MarkerA \o <<"x">> : tail \in Tails }
ExtractFields == { <<"a">>, <<"b">> }

CallExtractFieldFromPartialJson ==
    \E json \in ExtractBuffers, field \in ExtractFields :
        /\ call = NoCall
        /\ call' = [fn |-> "extractFieldFromPartialJson", json |-> json, field |-> field,
                    out |-> ExtractFieldFromPartialJson(json, field)]
        /\ UNCHANGED others

\* the call returned: the next one may be made
Return ==
    /\ call # NoCall
    /\ call' = NoCall
    /\ UNCHANGED others

\* the images handed to the convolution: every image of up to MaxWidth
\* columns and up to as many rows as the kernel has, whose pixels are ink or
\* paper
Ink == <<0, 100, 255, 7>>
Paper == <<255, 60, 0, 255>>
ImageOf(w, h, pixels) ==
    [width |-> w, height |-> h,
     data |-> [o \in 1..(w * h * 4) |-> pixels[((o - 1) \div 4) + 1][((o - 1) % 4) + 1]]]
Images ==
    UNION { { ImageOf(w, h, pixels) : pixels \in [1..(w * h) -> {Ink, Paper}] } :
                w \in 1..MaxWidth, h \in 1..Side(SharpenKernel) }

CallApplyConvolution ==
    \E src \in Images :
        /\ call = NoCall
        /\ call' = [fn |-> "applyConvolution", src |-> src,
                    out |-> ApplyConvolution(src, SharpenKernel)]
        /\ UNCHANGED others

\* preprocessCanvas on a canvas holding the image src; rescaled are the
\* values of pass 1 before the thresholds
CallPreprocessCanvas ==
    \E src \in Images :
        /\ call = NoCall
        /\ call' = [fn |-> "preprocessCanvas", src |-> src,
                    rescaled |-> [p \in Pixels(src) |-> Rescaled(src, p)],
                    out |-> PreprocessCanvas(src)]
        /\ UNCHANGED others

FunctionNext ==
    \/ CallPerformCognitiveSearch
    \/ CallParseDocument
    \/ CallExtractTextFromPdf
    \/ CallRobustParse
    \/ CallExtractFieldFromPartialJson
    \/ Return
    \/ CallApplyConvolution
    \/ CallPreprocessCanvas

FunctionSpec == Init /\ [][FunctionNext]_vars

----------------------------------------------------------------------------
(* Observations used by the properties *)

\* the entry the k-th selection appended for its j-th file
Entry(k, j) == files[tasks[k].base + j]

\* every (k, j): the j-th file of the k-th selection
Slots == UNION { { <<k, j>> : j \in DOMAIN tasks[k].fileList } : k \in DOMAIN tasks }

\* no other entry of the list bears this name
NameIsUnique(name) == Cardinality({ n \in DOMAIN files : files[n].name = name }) = 1

SameButFor(name) ==
    /\ Len(files') >= Len(files)
    /\ \A n \in DOMAIN files : files[n].name # name => files'[n] = files[n]

\* the step settles the j-th file of the k-th selection
Settles(k, j) ==
    /\ k \in DOMAIN tasks /\ j \in DOMAIN tasks[k].fileList
    /\ tasks[k].out[j] = "pending"
    /\ tasks'[k].out[j] # "pending"

----------------------------------------------------------------------------
(* C1: error isolation in handleFileChange.  A file whose extraction threw   *)
(* ends in Error and every other file of the selection in Ready with its    *)
(* own text; a finished selection has settled all its files; and the step   *)
(* that settles one file leaves every entry of another name as it was.      *)

C1_Outcome ==
    \A s \in Slots :
        LET t == tasks[s[1]]
            e == Entry(s[1], s[2])
        IN /\ t.pc = "done" => t.out[s[2]] # "pending"
           /\ (t.out[s[2]] = "error" /\ NameIsUnique(e.name))
                => e.status = "error" /\ e.content = <<>>
           /\ (t.out[s[2]] = "ready" /\ NameIsUnique(e.name))
                => e.status = "ready" /\ e.content = t.txt[s[2]]

C1_Step ==
    \A s \in Slots : Settles(s[1], s[2]) => SameButFor(tasks[s[1]].fileList[s[2]].name)

----------------------------------------------------------------------------
(* C2: every document that enters Processing eventually reaches Ready or    *)
(* Error, provided every awaited operation eventually settles (FairSpec).   *)

LongestSelection == CHOOSE n \in 0..Cardinality(UNION { DOMAIN fl : fl \in Selections }) :
    /\ \E fl \in Selections : Len(fl) = n
    /\ \A fl \in Selections : Len(fl) <= n

EntryIndexes == 1..(MaxSelections * LongestSelection)

IsProcessing(n) == n \in DOMAIN files /\ files[n].status = "processing"
IsTerminal(n) == n \in DOMAIN files /\ files[n].status \in {"ready", "error"}

C2_ProcessingSettles == \A n \in EntryIndexes : IsProcessing(n) ~> IsTerminal(n)

----------------------------------------------------------------------------
(* C3: when the fragment stream of a search ended and no strategy of the   *)
(* final parse yielded a result, the request ends with error set and the   *)
(* exposed result is not the streaming snapshot.                            *)

C3_ParseFailureIsError ==
    (req.pc = "idle" /\ req.outcome = "parseFailed")
        => (error.t # "null" /\ ~IsSnapshot(result))

----------------------------------------------------------------------------
(* C4: a document for which a recognition call failed never ends in Ready.  *)

C4_RecognitionFailureIsError ==
    \A s \in Slots :
        tasks[s[1]].ocrFailed[s[2]] =>
            /\ tasks[s[1]].out[s[2]] # "ready"
            /\ Entry(s[1], s[2]).status # "ready"

----------------------------------------------------------------------------
(* C5: Ready and Error are terminal: an entry in either status keeps its    *)
(* status and its text in every later step.                                 *)

C5_Step ==
    \A n \in DOMAIN files :
        files[n].status \in {"ready", "error"} =>
            /\ n \in DOMAIN files'
            /\ files'[n].status = files[n].status
            /\ files'[n].content = files[n].content

C5_TerminalIsFinal == [][C5_Step]_vars

----------------------------------------------------------------------------
(* C6: between successive fragments of one request each exposed string      *)
(* field of the snapshot (answer, articularSoundbite, briefExplanation)     *)
(* never gets shorter, and once non-empty is never set back to the empty    *)
(* string or to the placeholder; the same for the streamed answer text.     *)

SnapshotFields == { "answer", "articularSoundbite", "briefExplanation" }

Monotone(before, after) ==
    /\ Len(after) >= Len(before)
    /\ before # <<>> => after \notin { <<>>, Ellipsis }

C6_Step ==
    (req.pc = "streaming" /\ req'.pc = "streaming" /\ IsSnapshot(result))
        => /\ IsSnapshot(result')
           /\ \A f \in SnapshotFields : Monotone(result[f], result'[f])
           /\ Monotone(streamingText.s, streamingText'.s)

C6_SnapshotIsMonotone == [][C6_Step]_vars

\* mid-stream, after several fragments: the answer, with its escapes
\* resolved, is still open and a field that arrived after it is shown too
C6_Witness ==
    /\ req.pc = "streaming"
    /\ req.rest # <<>>
    /\ IsSnapshot(result)
    /\ result.answer = <<"a", NL, "b", QUOTE, "c">>
    /\ result.briefExplanation = <<"B">>

----------------------------------------------------------------------------
(* C7: a cache hit serves an entry only if the prompt the request would    *)
(* send (query, text of the Ready documents, configuration fields of the   *)
(* prompt) equals the prompt the entry was generated from.                  *)

C7_CacheHitMatchesPrompt ==
    req.pc = "timer" => req.storedPrompt = req.prompt

----------------------------------------------------------------------------
(* C8: a document in Processing or Error has empty text.                    *)

C8_OnlyReadyCarriesText ==
    \A n \in DOMAIN files :
        files[n].status \in {"processing", "error"} => files[n].content = <<>>

----------------------------------------------------------------------------
(* C9: the context of every request is built from exactly the documents     *)
(* that are Ready when the request is made, in list order; the text of a    *)
(* document in Processing or Error is not part of it.                       *)

RECURSIVE ContextOf(_, _, _)
ContextOf(kind, fs, wanted) ==
    IF fs = <<>> THEN <<>>
    ELSE LET rest == ContextOf(kind, Tail(fs), wanted)
             more == \E n \in DOMAIN Tail(fs) : Tail(fs)[n].status \in wanted
         IN IF Head(fs).status \notin wanted THEN rest
            ELSE Block(kind, Head(fs)) \o (IF more THEN Separator(kind) ELSE <<>>) \o rest

C9_Step == sent' # NoRequest => sent'.text = ContextOf(sent'.kind, files, {"ready"})

C9_ContextFromReadyOnly == [][C9_Step]_vars

\* a request was made while one document was Ready and another, in Error,
\* still carried text
C9_Witness ==
    /\ sent.kind = "search"
    /\ sent.text = ContextOf("search", files, {"ready"})
    /\ sent.text # ContextOf("search", files, {"ready", "error"})
    /\ \E n \in DOMAIN files : files[n].status = "error" /\ files[n].content # <<>>
    /\ \E n \in DOMAIN files : files[n].status = "ready"

----------------------------------------------------------------------------
(* C10: when the stream of a search failed, the request ends with error    *)
(* set and the snapshot built from the fragments received before the       *)
(* failure is not left as the exposed result.                               *)

C10_StreamFailureDropsSnapshot ==
    (req.pc = "idle" /\ req.outcome = "streamFailed")
        => (error.t = "str" /\ ~IsSnapshot(result))

(* C11: when the fragments of a stream concatenate to an empty or a        *)
(* whitespace-only text, the aggregation ends with an explicit error: it   *)
(* never returns an empty structured object and never ends without both a  *)
(* result and an error.                                                    *)
C11_BlankStreamIsError ==
    (call.fn = "performCognitiveSearch" /\ Trim(Concat(call.fragments)) = <<>>)
        => call.out.thrown

\* the name with the letters of an extension in lower case
FoldCase(s) ==
    [k \in DOMAIN s |->
        CASE s[k] = "P" -> "p" [] s[k] = "D" -> "d" [] s[k] = "F" -> "f"
          [] s[k] = "O" -> "o" [] s[k] = "C" -> "c" [] s[k] = "X" -> "x"
          [] OTHER -> s[k]]

(* C12: the dispatch ignores the letter case of the extension: a name that  *)
(* ends in .pdf in any letter case, with an empty or unknown MIME type,     *)
(* takes the PDF path; and a file whose MIME type begins with image/ and    *)
(* whose name has no recognisable extension takes the Image path.           *)
C12_ExtensionCaseIgnored ==
    call.fn = "parseDocument" =>
        /\ (EndsWith(FoldCase(call.file.name), DotPdf)
              /\ call.file.type \in { <<>>, MimeUnknown }) => call.path = "pdf"
        /\ (StartsWith(call.file.type, ImagePrefix)
              /\ call.file.name = <<"s", "c", "a", "n">>) => call.path = "image"

(* C13: for every combination of MIME type and name parseDocument takes     *)
(* exactly one path, the first that matches in the order PDF (the type is   *)
(* the PDF type or the name ends in .pdf), Image (the type begins with      *)
(* image/), office document (the name ends in .docx), plain decoding. A     *)
(* .pdf name with an image type is a PDF, a .docx name with an image type   *)
(* is an image.                                                             *)
C13_FirstMatchWins ==
    call.fn = "parseDocument" =>
        LET isPdf == call.file.type = MimePdf \/ EndsWith(call.file.name, DotPdf)
            isImage == StartsWith(call.file.type, ImagePrefix)
            isDocx == EndsWith(call.file.name, DotDocx)
        IN /\ call.path \in {"pdf", "image", "docx", "text"}
           /\ isPdf => call.path = "pdf"
           /\ (~isPdf /\ isImage) => call.path = "image"
           /\ (~isPdf /\ ~isImage /\ isDocx) => call.path = "docx"
           /\ (~isPdf /\ ~isImage /\ ~isDocx) => call.path = "text"

C13_Witness ==
    /\ call.fn = "parseDocument"
    /\ call.file = [name |-> <<"a">> \o DotPdf, type |-> MimePng]
    /\ call.path = "pdf"

\* the total number of characters of the text items of the embedded layer
RECURSIVE Total(_)
Total(lengths) == IF lengths = <<>> THEN 0 ELSE Head(lengths) + Total(Tail(lengths))

ItemCharacters(pdf) ==
    Total([i \in DOMAIN pdf.pages |->
              Total([j \in DOMAIN pdf.pages[i] |-> Len(pdf.pages[i][j])])])

(* C14: for a PDF with n > 0 pages the recognition fallback runs whenever   *)
(* the total number of characters of the text items of the embedded layer   *)
(* is below 50*n and does not run when that total is above 50*n; for three  *)
(* pages it runs for every total under 150 and never for 151 or more.       *)
C14_FallbackThreshold ==
    (call.fn = "extractTextFromPdf" /\ call.pdf.numPages > 0) =>
        /\ ItemCharacters(call.pdf) < 50 * call.pdf.numPages => call.fallback
        /\ ItemCharacters(call.pdf) > 50 * call.pdf.numPages => ~call.fallback

(* C14, amended: for a PDF with n > 0 pages the recognition fallback runs  *)
(* exactly when the trimmed text of the embedded layer (the items of a     *)
(* page joined by blanks, a newline after each page) has fewer than 50*n   *)
(* characters; for three pages it runs for every trimmed length under 150  *)
(* and never for 150 or more.                                              *)
C14_FallbackThresholdOnTrimmedText ==
    (call.fn = "extractTextFromPdf" /\ call.pdf.numPages > 0) =>
        (call.fallback <=> Len(Trim(EmbeddedText(call.pdf.pages))) < 50 * call.pdf.numPages)

C14_Witness ==
    /\ call.fn = "extractTextFromPdf"
    /\ call.pdf = OneItemPerPage(<<50, 49, 49>>)
    /\ ~call.fallback

\* the embedded layer is judged sufficient, or there is no page
Sufficient(pdf) ==
    pdf.numPages = 0 \/ Len(Trim(EmbeddedText(pdf.pages))) >= 50 * pdf.numPages

(* C15: when the embedded text layer of a PDF is judged sufficient, or the  *)
(* PDF has no page, extractTextFromPdf returns the embedded text without    *)
(* entering the recognition loop: no recognition request is issued for the  *)
(* document, and neither the recognition-active signal nor a progress value *)
(* is emitted for it.                                                       *)
C15_Step ==
    \A k \in DOMAIN tasks :
        (tasks[k].pc = "pdfText" /\ Sufficient(tasks[k].pdf) /\ tasks'[k] # tasks[k]) =>
            /\ tasks'[k].pc \notin {"pageRender", "pageOcr"}
            /\ ocrProgress' = ocrProgress
            /\ isCognitiveOcr' = isCognitiveOcr \/ BeginsImage(tasks[k], tasks[k].i + 1)
            /\ tasks'[k].out[tasks[k].i] = "ready" =>
                   /\ tasks'[k].txt[tasks[k].i] = EmbeddedText(tasks[k].pdf.pages)
                   /\ \E j \in DOMAIN files' :
                          /\ files'[j].name = tasks[k].fileList[tasks[k].i].name
                          /\ files'[j].content = EmbeddedText(tasks[k].pdf.pages)

C15_SufficientLayerIsReturned == [][C15_Step]_vars

C15_Witness ==
    \E k \in DOMAIN tasks :
        /\ Kind(tasks[k].fileList[1]) = "pdf"
        /\ tasks[k].out[1] = "ready"
        /\ tasks[k].txt[1] = Rep("x", 24) \o <<SP>> \o Rep("y", 25) \o <<NL>>
        /\ ~isCognitiveOcr
        /\ ocrProgress = 0

\* the block of page i (i < 10) as the claim spells it
ExpectedBlock(i, text) ==
    <<"-", "-", "-", " ", "P", "A", "G", "E", " ", Digits[i + 1], " ", "-", "-", "-", "\n">>
        \o text \o <<"\n", "\n">>

\* the blocks of pages 1..Len(texts) in ascending order
RECURSIVE ExpectedBlocks(_)
ExpectedBlocks(texts) ==
    IF texts = <<>> THEN <<>>
    ELSE ExpectedBlocks(SubSeq(texts, 1, Len(texts) - 1))
             \o ExpectedBlock(Len(texts), texts[Len(texts)])

\* what a recognition request may return for a page
PageTexts == { PerformVisionOcr(reply) : reply \in OcrReplies }

(* C16: in a recognition fallback run on an n-page PDF the pages are        *)
(* rendered and recognised one after another in the order 1..n (page i+1 is *)
(* not rendered before the request for page i has returned), the embedded   *)
(* text is discarded, and the returned text is exactly the concatenation,   *)
(* for i = 1..n in ascending order, of the blocks '--- PAGE i ---',         *)
(* newline, text of page i, two newlines.                                   *)
C16_Step ==
    \A k \in DOMAIN tasks :
        LET t == tasks[k]
            u == tasks'[k]
        IN u # t =>
            /\ (t.pc = "pdfText" /\ u.pc = "pageRender") =>
                   u.page = 1 /\ u.fullText = <<>>
            /\ (t.pc = "pageRender" /\ u.pc = "pageOcr") =>
                   u.page = t.page /\ u.fullText = t.fullText
            /\ t.pc \in {"pageRender", "pageOcr"} =>
                   \E texts \in [1..(t.page - 1) -> PageTexts] :
                       t.fullText = ExpectedBlocks(texts)
            /\ t.pc = "pageOcr" =>
                   \E text \in PageTexts :
                       IF t.page < t.pdf.numPages
                       THEN /\ u.pc = "pageRender"
                            /\ u.page = t.page + 1
                            /\ u.fullText = t.fullText \o ExpectedBlock(t.page, text)
                       ELSE /\ u.out[t.i] = "ready"
                            /\ u.txt[t.i] = t.fullText \o ExpectedBlock(t.page, text)
                            /\ \E j \in DOMAIN files' :
                                   files'[j].content = u.txt[t.i]

C16_PagesInOrder == [][C16_Step]_vars

C16_Witness ==
    \E k \in DOMAIN tasks :
        /\ Kind(tasks[k].fileList[1]) = "pdf"
        /\ tasks[k].out[1] = "ready"
        /\ tasks[k].txt[1] = ExpectedBlock(1, <<"x">>) \o ExpectedBlock(2, <<>>)

\* the finalization of the buffer ended with the value v
FinalizedTo(v) ==
    /\ call.fn = "robustParse" => call.out = v
    /\ call.fn = "performCognitiveSearch" => call.out = Returned(v)

\* the buffer is the valid JSON document doc wrapped in a fence
IsFenced(doc, tagged) ==
    /\ call.fn \in {"robustParse", "performCognitiveSearch"}
    /\ Concat(call.fragments) = Wrap(doc, tagged)
    /\ JsonParse(doc).ok

(* C17: for a buffer that is a valid JSON document wrapped in a Markdown    *)
(* code fence, with or without the json tag, finalization succeeds and      *)
(* returns the value of the document inside the fence.                      *)
C17_FencedDocumentIsParsed ==
    \A doc \in FencedDocuments, tagged \in BOOLEAN :
        IsFenced(doc, tagged) => FinalizedTo(JsonParse(doc).val)

\* the smallest element of a non-empty set of numbers
Least(S) == CHOOSE x \in S : \A y \in S : x <= y

\* backslash-n read as a newline and backslash-quote as a quote, in one pass
RECURSIVE Unescaped(_)
Unescaped(raw) ==
    IF Len(raw) >= 2 /\ raw[1] = "\\" /\ raw[2] = "n"
    THEN <<"\n">> \o Unescaped(SubSeq(raw, 3, Len(raw)))
    ELSE IF Len(raw) >= 2 /\ raw[1] = "\\" /\ raw[2] = "\""
    THEN <<"\"">> \o Unescaped(SubSeq(raw, 3, Len(raw)))
    ELSE IF raw = <<>> THEN <<>>
    ELSE <<raw[1]>> \o Unescaped(Tail(raw))

\* the reference: the text after the first occurrence of the marker up to
\* the first quote not preceded by a backslash, or to the end of the buffer
ReferenceValue(buffer, field) ==
    LET marker == <<"\"">> \o field \o <<"\"", ":", " ", "\"">>
        occurrences == { i \in 1..Len(buffer) :
                            /\ i + Len(marker) - 1 <= Len(buffer)
                            /\ \A k \in 1..Len(marker) : buffer[i + k - 1] = marker[k] }
        start == Least(occurrences) + Len(marker)
        ends == { j \in start..Len(buffer) : buffer[j] = "\"" /\ buffer[j - 1] # "\\" }
        end == IF ends = {} THEN Len(buffer) + 1 ELSE Least(ends)
    IN IF occurrences = {} THEN <<>>
       ELSE Unescaped([k \in 1..(end - start) |-> buffer[start + k - 1]])

(* C18: extractFieldFromPartialJson agrees with the reference for every     *)
(* buffer and field name: the empty text when the marker "<field>": " does  *)
(* not occur; else the text from just after the first occurrence of the     *)
(* marker up to the first double quote not immediately preceded by a        *)
(* backslash, or to the end of the buffer, with backslash-n replaced by a   *)
(* newline and backslash-quote by a quote. Escaped quotes do not end it.    *)
C18_ExtractorMatchesReference ==
    call.fn = "extractFieldFromPartialJson" =>
        call.out = ReferenceValue(call.json, call.field)

C18_Witness ==
    /\ call.fn = "extractFieldFromPartialJson"
    /\ call.field = <<"a">>
    /\ call.json = <<"{">> \o MarkerA \o <<"x", "\\", "\"", "\"">>
    /\ call.out = <<"x", "\"">>

\* channel ch of the pixel at column x, row y of the image before the pass;
\* 0 outside the image
Before(img, x, y, ch) ==
    IF x \in 0..(img.width - 1) /\ y \in 0..(img.height - 1)
    THEN img.data[4 * (y * img.width + x) + ch + 1]
    ELSE 0

Sharpened(img, x, y, ch) ==
    LET v == 5 * Before(img, x, y, ch)
               - Before(img, x, y - 1, ch) - Before(img, x, y + 1, ch)
               - Before(img, x - 1, y, ch) - Before(img, x + 1, y, ch)
    IN IF v < 0 THEN 0 ELSE IF v > 255 THEN 255 ELSE v

(* C19: applyConvolution with the 3x3 sharpen kernel computes, for every    *)
(* pixel and colour channel, clamp(5*c - up - down - left - right, 0, 255)  *)
(* with the neighbours read from the image as it was before the pass and 0  *)
(* for a neighbour outside the image; the output alpha is 255. For a 1x1    *)
(* image the result is clamp(5 * pixelValue, 0, 255) per channel.           *)
C19_SharpenFormula ==
    call.fn = "applyConvolution" =>
        /\ call.out.width = call.src.width /\ call.out.height = call.src.height
        /\ \A x \in 0..(call.src.width - 1), y \in 0..(call.src.height - 1) :
               /\ \A ch \in 0..2 :
                      Before(call.out, x, y, ch) = Sharpened(call.src, x, y, ch)
               /\ Before(call.out, x, y, 3) = 255

C19_Witness ==
    /\ call.fn = "applyConvolution"
    /\ call.src = ImageOf(3, 3, <<Paper, Ink, Paper, Ink, Ink, Ink, Paper, Paper, Paper>>)
    /\ Before(call.out, 1, 1, 1) = 140
    /\ Before(call.out, 1, 1, 0) = 0
    /\ Before(call.out, 0, 0, 1) = 100

\* the value the exposed snapshot shows for a named string field
Shown(field) ==
    CASE field = FieldAnswer -> result.answer
      [] field = FieldArticularSoundbite -> result.articularSoundbite
      [] field = FieldBriefExplanation -> result.briefExplanation
      [] field = FieldBuyerFear -> result.psychologicalProjection.buyerFear
      [] field = FieldBuyerIncentive -> result.psychologicalProjection.buyerIncentive
      [] field = FieldStrategicLever -> result.psychologicalProjection.strategicLever

NamedFields ==
    { FieldAnswer, FieldArticularSoundbite, FieldBriefExplanation,
      FieldBuyerFear, FieldBuyerIncentive, FieldStrategicLever }

(* C20: after every fragment of a search stream, each named string field    *)
(* (answer, articularSoundbite, briefExplanation, buyerFear,                *)
(* buyerIncentive, strategicLever) whose extraction from the buffer so far  *)
(* is not empty is shown with that value in the exposed snapshot; a field   *)
(* that appears only after the first snapshot is picked up by a later one.  *)
C20_SnapshotShowsEveryField ==
    req.pc = "streaming" =>
        \A field \in NamedFields :
            ExtractFieldFromPartialJson(req.fullBuffer, field) # <<>> =>
                /\ IsSnapshot(result)
                /\ Shown(field) = ExtractFieldFromPartialJson(req.fullBuffer, field)

(* C21: whenever no extraction is in progress (every started extraction has *)
(* ended, by returning or by raising) the recognition-active flag is false  *)
(* and the reported progress is 0, after a PDF fallback run and after an    *)
(* image extraction, on the success path and on every failure path.         *)
C21_IdleMeansNoRecognition ==
    (\A k \in DOMAIN tasks : tasks[k].pc = "done")
        => (~isCognitiveOcr /\ ocrProgress = 0)

(* C22: during a recognition fallback run on an n-page PDF the progress     *)
(* round(100 * i / n) is reported only after the recognition of page i has  *)
(* completed: while page i is still being rendered or waits for its         *)
(* recognition result the reported value is at most that of page i - 1, in  *)
(* particular never 100.                                                    *)
C22_ProgressAfterRecognition ==
    \A k \in DOMAIN tasks :
        tasks[k].pc \in {"pageRender", "pageOcr"} =>
            /\ ocrProgress # 100
            /\ (\A j \in DOMAIN tasks : j # k => tasks[j].pc \notin {"pageRender", "pageOcr"})
                   => ocrProgress <= (200 * (tasks[k].page - 1) + tasks[k].pdf.numPages)
                                         \div (2 * tasks[k].pdf.numPages)

(* C23: when two file selections are processed concurrently the extractions *)
(* share no mutable state: the recognition-active flag and the progress     *)
(* reported for a document in recognition are those of its own extraction,  *)
(* and the completion of another document's extraction cannot reset or      *)
(* overwrite them.                                                          *)
C23_OwnFlagAndProgress ==
    \A k \in DOMAIN tasks :
        /\ tasks[k].pc \in {"pageRender", "pageOcr", "imgRead", "imgDecode", "imgOcr"}
               => isCognitiveOcr
        /\ tasks[k].pc \in {"pageRender", "pageOcr"}
               => ocrProgress = (200 * tasks[k].page + tasks[k].pdf.numPages)
                                    \div (2 * tasks[k].pdf.numPages)

\* the text from the first '[' to the last ']' of the trimmed buffer parses
BracketSliceParses(buffer) ==
    LET trimmed == Trim(buffer)
        first == IndexOf(trimmed, <<"[">>)
        last == LastIndexOf(trimmed, "]")
    IN first # 0 /\ last > first
       /\ JsonParse([k \in 1..(last - first + 1) |-> trimmed[first + k - 1]]).ok

(* C24: finalization applies the recovery strategies in the order prefix up *)
(* to the reported error offset, fence stripping, slice from the first '{'  *)
(* to the last '}', slice from the first '[' to the last ']', regular       *)
(* expression span, and succeeds whenever one of them yields parseable      *)
(* text; in particular a buffer that parses only after slicing from the     *)
(* first '[' to the last ']' is finalized successfully by handleSearch.     *)
C24_BracketSliceIsTried ==
    (call.fn = "robustParse" /\ BracketSliceParses(Concat(call.fragments)))
        => call.out # JsNull

(* C25: whenever the strict JSON parse of the full trimmed buffer succeeds, *)
(* finalization returns exactly that parsed value and applies no recovery   *)
(* strategy, for every JSON value, null, false, 0 and the empty string      *)
(* included.                                                                *)
C25_StrictParseIsFinal ==
    (call.fn \in {"robustParse", "performCognitiveSearch"}
        /\ JsonParse(Trim(Concat(call.fragments))).ok)
        => FinalizedTo(JsonParse(Trim(Concat(call.fragments))).val)

(* C26: in the luminance normalization of preprocessCanvas the minimum and  *)
(* maximum used for rescaling are those of the weighted luminance that is   *)
(* rescaled, so for every image the rescaled value of every pixel before    *)
(* thresholding lies in [0, 255].                                           *)
C26_RescaledWithinRange ==
    call.fn = "preprocessCanvas" =>
        \A p \in DOMAIN call.rescaled :
            /\ call.rescaled[p].num >= 0
            /\ call.rescaled[p].num <= 255 * call.rescaled[p].den

\* the step that ends a request with a successful final parse, writing the
\* parsed document under the request's key
WritesFinalParse ==
    /\ req.pc = "streaming" /\ req.rest = <<>>
    /\ req'.outcome = "parsed"
    /\ \E reportsPosition \in BOOLEAN :
         LET finalResult == RobustParse(req.fullBuffer, reportsPosition)
         IN /\ Truthy(finalResult)
            /\ result' = finalResult
            /\ searchCache' = CacheSet(searchCache, req.cacheKey, finalResult, req.prompt)

\* C27: the search cache only holds authoritative results: it changes only in
\* the step that ends the stream with a successful final parse, and then by
\* the parsed document under the request's key; a request ending in a stream
\* failure or a parse failure leaves it alone; no entry is a streaming
\* snapshot
C27_CacheHoldsFinalParses ==
    /\ [](\A entry \in searchCache : ~IsSnapshot(entry.value) /\ Truthy(entry.value))
    /\ [][/\ searchCache' # searchCache => WritesFinalParse
          /\ req'.outcome \in {"parseFailed", "streamFailed"} => searchCache' = searchCache]_vars

\* a first request has been cached and a second one ended in a failed final
\* parse after showing a snapshot
C27_Witness ==
    /\ searchCache # {}
    /\ req.outcome = "parseFailed"
    /\ IsSnapshot(result)

\* C28: every accepted request returns the component to isSearching = false
\* (by the timer of a cache hit, by the final parse whether it succeeds or
\* not, by the failure of the stream), given that the stream ends or fails;
\* a request is in flight exactly while isSearching is true, and while it is
\* no handleSearch call accepts another request
C28_SearchingEnds ==
    /\ isSearching ~> ~isSearching
    /\ [](isSearching <=> req.pc # "idle")
    /\ [][isSearching => req'.n = req.n /\ (req'.pc # "idle" => req'.cacheKey = req.cacheKey)]_vars

\* a second request, served from the cache, has returned to idle
C28_Witness ==
    /\ ~isSearching
    /\ req.n > 1
    /\ req.outcome = "cached"

\* C29: every turn of the conversation history holds the user and AI text
\* of the inputTranscription and outputTranscription messages that arrived
\* since the previous turnComplete; nothing heard is missing from the history
C29_TurnHoldsAccumulatedText ==
    \A i \in DOMAIN transcription :
        i <= Len(live.turns) /\ transcription[i] = live.turns[i]

\* C30: a runAnalysis with a Ready document either issues the remote call or
\* finds an analysis held that was computed from the present documents and
\* configuration; the analysis held is never reused after a change
C30_ReuseOnlyWhenUnchanged ==
    [][SynthesizeStrategy =>
          \/ sent'.kind = "analysis"
          \/ analysis /\ analyzed # <<>> /\ analyzed[Len(analyzed)] = AnalysisInputs]_vars

\* after a reset, a second analysis has been computed by a new remote call
\* from a document of the same name and length as the first, with other
\* content, under the same configuration
C30_Witness ==
    /\ sent.kind = "analysis"
    /\ analysis
    /\ Len(analyzed) = 2
    /\ analyzed[1].text # analyzed[2].text
    /\ analyzed[1].context = analyzed[2].context
    /\ lastAnalyzedHash = GenerateStateHash(files, context)

====
